---- MODULE Spec2Model ----
(***************************************************************************)
(* strawhub CLI: the reference-counted package ledger (lockfile.py), the   *)
(* runtime dependency resolver (resolver.py, version_spec.py) and the      *)
(* install / update / uninstall flows that use them (commands/*.py).       *)
(***************************************************************************)
EXTENDS Integers, Sequences, FiniteSets, TLC

VARIABLES
    direct_installs,  \* Lockfile.direct_installs: list of PackageRef
    packages,         \* Lockfile.packages: insertion-ordered dict key -> entry
    ret,              \* the last Lockfile call: its name, arguments and return value
    fs,               \* the package directories under the local and global roots
    call,             \* resolve(slug, kind, version): the arguments of the call
    index,            \* resolve: index = _build_index(lr, gr)
    stack,            \* resolve: the active resolve_pkg calls, innermost last
    visiting,         \* resolve: the visiting set
    resolved,         \* resolve: the resolved dict, in insertion order
    selected,         \* resolve: log of the selections, (key, constraint, entry)
    rpc,              \* resolve: "idle", "dfs", "format", "done" or "error"
    result,           \* resolve: the dict returned or the exception raised
    registry,         \* the hub: latest published version of each package
    saved,            \* strawpot.lock of the local root, as last saved
    fpc,              \* the running command: "idle", "project", "deps", "cleanup",
                      \* "update", "failed"
    cmd,              \* the running command: its arguments and loop variables
    fres,             \* how the last command ended
    vcall,            \* version_spec: the version strings and operator of the calls
    vret              \* version_spec: the last call and what it returned

lockVars == <<direct_installs, packages, ret>>

resVars == <<fs, call, index, stack, visiting, resolved, selected, rpc, result>>

flowVars == <<registry, saved, fpc, cmd, fres>>

verVars == <<vcall, vret>>

vars == <<direct_installs, packages, ret,
          fs, call, index, stack, visiting, resolved, selected, rpc, result,
          registry, saved, fpc, cmd, fres,
          vcall, vret>>

(***************************************************************************)
(* Bounds                                                                  *)
(***************************************************************************)
\* most dependents edges the Lockfile operations record in all entries together
MaxDependents == 2

\* most refs the Lockfile operations register as direct installs
MaxDirect == 2

\* most dependency strings in one list of a manifest of the graph family
MaxDeps == 2

\* most packages of which the hub publishes a second version
MaxPublished == 1

\* most directories that failed downloads have left empty
MaxFailed == 1

(***************************************************************************)
(* PackageRef (lockfile.py)                                                *)
(***************************************************************************)
V100 == <<1, 0, 0, 0>>

PackageRef(kind, slug, version) == [kind |-> kind, slug |-> slug, version |-> version]

\* Python's None where a PackageRef is optional
None == PackageRef("-", "-", <<0, 0, 0, 0>>)

\* PackageRef.key: "{kind}:{slug}:{version}", kept as the triple of its parts
key(ref) == <<ref.kind, ref.slug, ref.version>>

\* the refs the Lockfile operations are called with
Refs ==
    { PackageRef("role", "a", V100),
      PackageRef("role", "b", V100),
      PackageRef("skill", "c", V100) }

Keys == { key(r) : r \in Refs }

(***************************************************************************)
(* Sequence helpers                                                        *)
(***************************************************************************)
Range(s) == { s[i] : i \in DOMAIN s }

InSeq(x, s) == \E i \in DOMAIN s : s[i] = x

NoDup(s) == \A i, j \in DOMAIN s : i # j => s[i] # s[j]

\* the insertion-ordered dict: a sequence of entries, each carrying its key
DictKeys(d) == [i \in DOMAIN d |-> d[i].key]

HasKey(d, k) == \E i \in DOMAIN d : d[i].key = k

DictGet(d, k) == d[CHOOSE i \in DOMAIN d : d[i].key = k]

\* dict.pop(k, None) / del d[k]
DictDel(d, k) == SelectSeq(d, LAMBDA e : e.key # k)

(***************************************************************************)
(* Lockfile operations (lockfile.py), as functions of the fields           *)
(***************************************************************************)
is_direct_install(di, k) == \E i \in DOMAIN di : key(di[i]) = k

\* add_direct_install that appends without looking for the key
add_direct_install_append(di, ref) == Append(di, ref)

add_direct_install(di, ref) ==
    IF ~(\E i \in DOMAIN di : key(di[i]) = key(ref)) THEN Append(di, ref) ELSE di

remove_direct_install(di, ref) == SelectSeq(di, LAMBDA r : key(r) # key(ref))

NewEntry(ref) ==
    [key |-> key(ref), kind |-> ref.kind, slug |-> ref.slug,
     version |-> ref.version, dependents |-> <<>>]

\* add_package that appends the dependent without looking for it in the list
add_package_append(pkgs, ref, dependent) ==
    LET p1 == IF ~HasKey(pkgs, key(ref)) THEN Append(pkgs, NewEntry(ref)) ELSE pkgs
    IN  IF dependent # None
        THEN [i \in DOMAIN p1 |->
                IF p1[i].key = key(ref)
                THEN [p1[i] EXCEPT !.dependents = Append(@, key(dependent))]
                ELSE p1[i]]
        ELSE p1

add_package(pkgs, ref, dependent) ==
    LET p1 == IF ~HasKey(pkgs, key(ref)) THEN Append(pkgs, NewEntry(ref)) ELSE pkgs
    IN  IF dependent # None /\ ~InSeq(key(dependent), DictGet(p1, key(ref)).dependents)
        THEN [i \in DOMAIN p1 |->
                IF p1[i].key = key(ref)
                THEN [p1[i] EXCEPT !.dependents = Append(@, key(dependent))]
                ELSE p1[i]]
        ELSE p1

remove_dependent(pkgs, package_key, dependent_key) ==
    IF HasKey(pkgs, package_key)
    THEN [i \in DOMAIN pkgs |->
            IF pkgs[i].key = package_key
            THEN [pkgs[i] EXCEPT !.dependents = SelectSeq(@, LAMBDA d : d # dependent_key)]
            ELSE pkgs[i]]
    ELSE pkgs

\* remove_package that pops the entry and forgets to scrub the other entries
remove_package_noscrub(pkgs, package_key) == DictDel(pkgs, package_key)

\* remove_package that empties every dependents list naming the removed key
remove_package_cleardeps(pkgs, package_key) ==
    LET p1 == DictDel(pkgs, package_key)
    IN  [i \in DOMAIN p1 |->
            IF InSeq(package_key, p1[i].dependents)
            THEN [p1[i] EXCEPT !.dependents = <<>>]
            ELSE p1[i]]

remove_package(pkgs, package_key) ==
    LET p1 == DictDel(pkgs, package_key)
    IN  [i \in DOMAIN p1 |->
            [p1[i] EXCEPT !.dependents = SelectSeq(@, LAMBDA d : d # package_key)]]

is_orphan(di, pkgs, package_key) ==
    IF ~HasKey(pkgs, package_key)
    THEN FALSE
    ELSE DictGet(pkgs, package_key).dependents = <<>> /\ ~is_direct_install(di, package_key)

\* the pass with `all(d in remaining ...)` in place of `any(...)`
RECURSIVE SweepPassAll(_, _, _)
SweepPassAll(di, ks, st) ==
    IF ks = <<>> THEN st
    ELSE
        LET k == Head(ks)
            pkg == DictGet(st.remaining, k)
            has_dependents == /\ pkg.dependents # <<>>
                              /\ \A i \in DOMAIN pkg.dependents :
                                     HasKey(st.remaining, pkg.dependents[i])
        IN  IF ~has_dependents /\ ~is_direct_install(di, k)
            THEN SweepPassAll(di, Tail(ks),
                     [remaining |-> DictDel(st.remaining, k),
                      all_orphans |-> Append(st.all_orphans, k),
                      changed |-> TRUE])
            ELSE SweepPassAll(di, Tail(ks), st)

\* one `for key in list(remaining.keys())` pass of collect_orphans; st is
\* [remaining, all_orphans, changed], ks the keys still to visit
RECURSIVE SweepPass(_, _, _)
SweepPass(di, ks, st) ==
    IF ks = <<>> THEN st
    ELSE
        LET k == Head(ks)
            pkg == DictGet(st.remaining, k)
            has_dependents == \E i \in DOMAIN pkg.dependents :
                                  HasKey(st.remaining, pkg.dependents[i])
        IN  IF ~has_dependents /\ ~is_direct_install(di, k)
            THEN SweepPass(di, Tail(ks),
                     [remaining |-> DictDel(st.remaining, k),
                      all_orphans |-> Append(st.all_orphans, k),
                      changed |-> TRUE])
            ELSE SweepPass(di, Tail(ks), st)

\* the `while changed` loop of collect_orphans
RECURSIVE SweepLoop(_, _)
SweepLoop(di, st) ==
    IF ~st.changed THEN st.all_orphans
    ELSE SweepLoop(di, SweepPass(di, DictKeys(st.remaining),
                                 [st EXCEPT !.changed = FALSE]))

\* collect_orphans without the `while changed` loop: a single pass
collect_orphans_once(di, pkgs) ==
    SweepPass(di, DictKeys(pkgs),
              [remaining |-> pkgs, all_orphans |-> <<>>, changed |-> FALSE]).all_orphans

collect_orphans(di, pkgs) ==
    SweepLoop(di, [remaining |-> pkgs, all_orphans |-> <<>>, changed |-> TRUE])

\* collect_orphans sweeping self.packages itself (`remaining = self.packages`)
collect_orphans_packages_nocopy(di, pkgs) ==
    SelectSeq(pkgs, LAMBDA e : ~InSeq(e.key, collect_orphans(di, pkgs)))

\* self.packages after collect_orphans: the sweep deletes from `remaining`, a
\* copy made by dict(self.packages), and assigns to no entry's dependents
collect_orphans_packages(di, pkgs) == pkgs

\* the removal loop stopping after the first orphan
remove_orphans_first(pkgs, orphans) ==
    IF orphans = <<>> THEN pkgs ELSE remove_package(pkgs, Head(orphans))

\* the lockfile side of `for key in orphans:` in _uninstall_impl: a key that
\* is no longer an entry is skipped, every other one goes through
\* remove_package
RECURSIVE remove_orphans(_, _)
remove_orphans(pkgs, orphans) ==
    IF orphans = <<>> THEN pkgs
    ELSE IF HasKey(pkgs, Head(orphans))
         THEN remove_orphans(remove_package(pkgs, Head(orphans)), Tail(orphans))
         ELSE remove_orphans(pkgs, Tail(orphans))

(***************************************************************************)
(* strawpot.lock: the file, its JSON text, save and load (lockfile.py)     *)
(***************************************************************************)
\* the values json.loads returns: str, int, list, dict (its members in order)
JStr(s) == [json |-> "string", value |-> s]

JNum(n) == [json |-> "number", value |-> n]

JArr(items) == [json |-> "array", items |-> items]

JObj(members) == [json |-> "object", members |-> members]

Member(name, value) == [name |-> name, value |-> value]

\* `name in d` and d[name] of a parsed object
HasMember(obj, name) == \E i \in DOMAIN obj.members : obj.members[i].name = name

GetMember(obj, name) ==
    obj.members[CHOOSE i \in DOMAIN obj.members : obj.members[i].name = name].value

\* d.get(name, default)
GetOr(obj, name, default) ==
    IF HasMember(obj, name) THEN GetMember(obj, name) ELSE default

\* the text json.dumps writes for a value, and a text that is not JSON
dumps(value) == [valid |-> TRUE, doc |-> value]

NotJson == [valid |-> FALSE]

\* the file at the Lockfile's path: absent, or holding a text
Missing == [exists |-> FALSE]

File(text) == [exists |-> TRUE, text |-> text]

\* {"kind": r.kind, "slug": r.slug, "version": r.version}
RefObject(r) ==
    JObj(<<Member("kind", JStr(r.kind)), Member("slug", JStr(r.slug)),
           Member("version", JStr(r.version))>>)

\* an entry of self.packages as add_package builds it
EntryObject(e) ==
    JObj(<<Member("kind", JStr(e.kind)), Member("slug", JStr(e.slug)),
           Member("version", JStr(e.version)),
           Member("dependents",
                  JArr([i \in DOMAIN e.dependents |-> JStr(e.dependents[i])]))>>)

\* Lockfile.save: the file after the call
save(di, pkgs) ==
    File(dumps(JObj(<<
        Member("version", JNum(1)),
        Member("directInstalls", JArr([i \in DOMAIN di |-> RefObject(di[i])])),
        Member("packages",
               JObj([i \in DOMAIN pkgs |-> Member(pkgs[i].key, EntryObject(pkgs[i]))]))>>)))

\* what Lockfile.load gives: the Lockfile it returns or the exception it raises
Loaded(di, pkgs) ==
    [ok |-> TRUE, etype |-> "none", direct_installs |-> di, packages |-> pkgs]

LoadRaise(etype) ==
    [ok |-> FALSE, etype |-> etype, direct_installs |-> <<>>, packages |-> <<>>]

\* the dict of "packages" read with every dependents list left empty
PackagesOf_nodependents(obj) ==
    [i \in DOMAIN obj.members |->
        LET e == obj.members[i].value
        IN  [key |-> obj.members[i].name,
             kind |-> GetMember(e, "kind").value,
             slug |-> GetMember(e, "slug").value,
             version |-> GetMember(e, "version").value,
             dependents |-> <<>>]]

\* the dict json.loads built for "packages", as the insertion-ordered dict of
\* entries the operations work on
PackagesOf(obj) ==
    [i \in DOMAIN obj.members |->
        LET e == obj.members[i].value
        IN  [key |-> obj.members[i].name,
             kind |-> GetMember(e, "kind").value,
             slug |-> GetMember(e, "slug").value,
             version |-> GetMember(e, "version").value,
             dependents |-> [j \in DOMAIN GetMember(e, "dependents").items |->
                                GetMember(e, "dependents").items[j].value]]]

\* the `for d in data.get("directInstalls", [])` loop over a list: the first
\* item that is no dict or lacks a field raises
RECURSIVE LoadDirect(_, _, _)
LoadDirect(items, i, di) ==
    IF i > Len(items) THEN Loaded(di, <<>>)
    ELSE LET d == items[i]
         IN  IF d.json # "object" THEN LoadRaise("TypeError")
             ELSE IF ~(HasMember(d, "kind") /\ HasMember(d, "slug")
                       /\ HasMember(d, "version"))
             THEN LoadRaise("KeyError")
             ELSE LoadDirect(items, i + 1,
                      Append(di, PackageRef(GetMember(d, "kind").value,
                                            GetMember(d, "slug").value,
                                            GetMember(d, "version").value)))

\* Lockfile.load: a missing file gives the empty Lockfile; json.loads raises
\* on a text that is not JSON; data.get raises on a value that is no dict;
\* "packages" is taken as it is
load(file) ==
    IF ~file.exists THEN Loaded(<<>>, <<>>)
    ELSE IF ~file.text.valid THEN LoadRaise("JSONDecodeError")
    ELSE
        LET data == file.text.doc
        IN  IF data.json # "object" THEN LoadRaise("AttributeError")
            ELSE
                LET dis == GetOr(data, "directInstalls", JArr(<<>>))
                    r == IF dis.json = "array" THEN LoadDirect(dis.items, 1, <<>>)
                         ELSE IF dis.json = "object" /\ dis.members = <<>>
                         THEN Loaded(<<>>, <<>>)
                         ELSE LoadRaise("TypeError")
                IN  IF ~r.ok THEN r
                    ELSE Loaded(r.direct_installs,
                                PackagesOf(GetOr(data, "packages", JObj(<<>>))))

(***************************************************************************)
(* Versions and dependency specs (version_spec.py)                         *)
(***************************************************************************)
\* a version string matching \d+\.\d+\.\d+ is kept as its three numbers and
\* the count of zeros written before the major number: "1.0.0" and "01.0.0"
\* are different strings that parse to the same version
V140 == <<1, 4, 0, 0>>
V200 == <<2, 0, 0, 0>>
V0100 == <<1, 0, 0, 1>>

Versions == {V100, V140, V200}

V020 == <<0, 2, 0, 0>>
V030 == <<0, 3, 0, 0>>
V119 == <<1, 1, 9, 0>>
V120 == <<1, 2, 0, 0>>
V121 == <<1, 2, 1, 0>>
V190 == <<1, 9, 0, 0>>

\* the version strings compare_versions and satisfies_version are called with
VersionStrings == {V020, V030, V100, V0100, V119, V120, V121, V190, V200}

\* the operators SPEC_REGEX admits, and "latest" for a bare slug
Operators == {"latest", "==", ">=", "^"}

\* Python's None where a version string is optional
NoVersion == <<>>

\* Python's None where a kind is optional
NoKind == "none"

Kinds == {"skill", "role"}

ParsedVersion(major, minor, patch) == [major |-> major, minor |-> minor, patch |-> patch]

parse_version(version) == ParsedVersion(version[1], version[2], version[3])

\* a compare_versions that forgets the patch component
compare_versions_nopatch(a, b) ==
    IF a.major # b.major THEN (IF a.major < b.major THEN -1 ELSE 1)
    ELSE IF a.minor # b.minor THEN (IF a.minor < b.minor THEN -1 ELSE 1)
    ELSE 0

compare_versions(a, b) ==
    IF a.major # b.major THEN (IF a.major < b.major THEN -1 ELSE 1)
    ELSE IF a.minor # b.minor THEN (IF a.minor < b.minor THEN -1 ELSE 1)
    ELSE IF a.patch # b.patch THEN (IF a.patch < b.patch THEN -1 ELSE 1)
    ELSE 0

\* ParsedVersion is a dataclass with order=True: a < b compares the tuples
ParsedLess(a, b) ==
    \/ a.major < b.major
    \/ a.major = b.major /\ a.minor < b.minor
    \/ a.major = b.major /\ a.minor = b.minor /\ a.patch < b.patch

DependencySpec(slug, operator, version) ==
    [slug |-> slug, operator |-> operator, version |-> version]

\* Python's None where a DependencySpec is optional
NoSpec == DependencySpec("-", "none", NoVersion)

\* a dependency string of a manifest, kept as its parts: the slug, the operator
\* text ("" for a bare slug, "?" for text that matches neither regex) and the
\* version text
Tok(slug, op, version) == [slug |-> slug, op |-> op, version |-> version]

Bare(slug) == Tok(slug, "", NoVersion)

Malformed == Tok("Bad Spec", "?", NoVersion)

\* parse_dependency_spec: ok = FALSE stands for the ValueError it raises
parse_dependency_spec(spec) ==
    IF spec.op \in {"==", ">=", "^"}
    THEN [ok |-> TRUE, spec |-> DependencySpec(spec.slug, spec.op, spec.version)]
    ELSE IF spec.op = ""
    THEN [ok |-> TRUE, spec |-> DependencySpec(spec.slug, "latest", NoVersion)]
    ELSE [ok |-> FALSE, spec |-> NoSpec]

\* parse_constraint, the constraint of a strawpot.toml dependency: "*" and ""
\* are latest, an operator followed by a version is that pair, with an empty
\* slug; anything else raises ValueError (ok = FALSE)
parse_constraint(constraint) ==
    IF constraint.op \in {"==", ">=", "^"}
    THEN [ok |-> TRUE, spec |-> DependencySpec("", constraint.op, constraint.version)]
    ELSE IF constraint.op = ""
    THEN [ok |-> TRUE, spec |-> DependencySpec("", "latest", NoVersion)]
    ELSE [ok |-> FALSE, spec |-> NoSpec]

\* satisfies_version whose ^ accepts every version that is not lower
satisfies_version_anymajor(candidate_version, spec) ==
    IF spec.operator = "latest" \/ spec.version = NoVersion THEN TRUE
    ELSE
        LET candidate == parse_version(candidate_version)
            required == parse_version(spec.version)
        IN  IF spec.operator = "==" THEN compare_versions(candidate, required) = 0
            ELSE IF spec.operator \in {">=", "^"}
            THEN compare_versions(candidate, required) >= 0
            ELSE FALSE

\* satisfies_version whose ^ keeps the minor version fixed below 1.0.0
satisfies_version_zeromajor(candidate_version, spec) ==
    IF spec.operator = "latest" \/ spec.version = NoVersion THEN TRUE
    ELSE
        LET candidate == parse_version(candidate_version)
            required == parse_version(spec.version)
        IN  IF spec.operator = "==" THEN compare_versions(candidate, required) = 0
            ELSE IF spec.operator = ">=" THEN compare_versions(candidate, required) >= 0
            ELSE IF spec.operator = "^"
            THEN /\ candidate.major = required.major
                 /\ required.major = 0 => candidate.minor = required.minor
                 /\ compare_versions(candidate, required) >= 0
            ELSE FALSE

satisfies_version(candidate_version, spec) ==
    IF spec.operator = "latest" \/ spec.version = NoVersion THEN TRUE
    ELSE
        LET candidate == parse_version(candidate_version)
            required == parse_version(spec.version)
        IN  IF spec.operator = "==" THEN compare_versions(candidate, required) = 0
            ELSE IF spec.operator = ">=" THEN compare_versions(candidate, required) >= 0
            ELSE IF spec.operator = "^"
            THEN /\ candidate.major = required.major
                 /\ compare_versions(candidate, required) >= 0
            ELSE FALSE

\* a directory entry name, kept as its parts: the text before the last "-" and
\* the version after it (NoVersion when the name does not end in -X.Y.Z)
DirName(slug, version) == [slug |-> slug, version |-> version]

\* parse_dir_name: <<slug, version>>, or <<>> for None
parse_dir_name(name) ==
    IF name.version # NoVersion THEN <<name.slug, name.version>> ELSE <<>>

(***************************************************************************)
(* The installed packages on disk and the resolver (resolver.py)           *)
(***************************************************************************)
\* the frontmatter of a SKILL.md / ROLE.md, as far as the resolver reads it:
\* file tells whether the main file exists; shape is the type of the
\* `dependencies` value ("none" when the key is absent, "list", "dict");
\* items is the list (or the dict's `skills` list), roles the dict's `roles`
Manifest(file, shape, items, roles) ==
    [file |-> file, shape |-> shape, items |-> items, roles |-> roles]

NoFile == Manifest(FALSE, "none", <<>>, <<>>)

NoDeps == Manifest(TRUE, "none", <<>>, <<>>)

ManList(items) == Manifest(TRUE, "list", items, <<>>)

ManDict(skills, roles) == Manifest(TRUE, "dict", skills, roles)

\* an entry of root/skills or root/roles
DirEntry(scope, kind, name, is_dir, manifest) ==
    [scope |-> scope, kind |-> kind, name |-> name, is_dir |-> is_dir,
     manifest |-> manifest]

Dir(scope, kind, slug, version, manifest) ==
    DirEntry(scope, kind, DirName(slug, version), TRUE, manifest)

\* str(entry.resolve()): the directory a path names
Path(scope, kind, name) == [scope |-> scope, kind |-> kind, name |-> name]

IndexEntry(version, path, scope) == [version |-> version, path |-> path, scope |-> scope]

\* subdir.iterdir() for one scope and kind: the entries in the order the
\* operating system lists them, an arbitrary but fixed order
RECURSIVE Listing(_)
Listing(S) ==
    IF S = {} THEN <<>>
    ELSE LET first == CHOOSE e \in S : TRUE
         IN  <<first>> \o Listing(S \ {first})

\* the inner loop of _build_index for one scope and kind, extending the list
\* idx of the key (kind, pkg_slug)
RECURSIVE ScanEntries(_, _, _)
ScanEntries(entries, pkg_slug, idx) ==
    IF entries = <<>> THEN idx
    ELSE
        LET entry == Head(entries)
            parsed == parse_dir_name(entry.name)
        IN  IF ~entry.is_dir \/ parsed = <<>> \/ parsed[1] # pkg_slug
            THEN ScanEntries(Tail(entries), pkg_slug, idx)
            ELSE IF \E i \in DOMAIN idx : idx[i].version = parsed[2]
            THEN ScanEntries(Tail(entries), pkg_slug, idx)
            ELSE ScanEntries(Tail(entries), pkg_slug,
                     Append(idx, IndexEntry(parsed[2],
                                            Path(entry.scope, entry.kind, entry.name),
                                            entry.scope)))

ScopeListing(files, scope, kind) ==
    Listing({ e \in files : e.scope = scope /\ e.kind = kind })

\* _build_index that scans the global root before the local one
IndexOf_globalfirst(files, kind, pkg_slug) ==
    ScanEntries(ScopeListing(files, "local", kind), pkg_slug,
        ScanEntries(ScopeListing(files, "global", kind), pkg_slug, <<>>))

\* index[(kind, pkg_slug)] as _build_index leaves it: local entries first
IndexOf(files, kind, pkg_slug) ==
    ScanEntries(ScopeListing(files, "global", kind), pkg_slug,
        ScanEntries(ScopeListing(files, "local", kind), pkg_slug, <<>>))

SlugsOf(files) == { e.name.slug : e \in files }

\* _build_index: a key is in the index exactly when its list is not empty
build_index(files) ==
    [k \in Kinds \X SlugsOf(files) |-> IndexOf(files, k[1], k[2])]

\* index.get(key, [])
IndexGet(idx, k) == IF k \in DOMAIN idx THEN idx[k] ELSE <<>>

\* key in index
InIndex(idx, k) == IndexGet(idx, k) # <<>>

\* the manifest of the package directory at a path
ManifestAt(files, path) ==
    (CHOOSE e \in files : e.is_dir /\ Path(e.scope, e.kind, e.name) = path).manifest

RECURSIVE ParseAll(_, _)
ParseAll(dep_kind, toks) ==
    IF toks = <<>> THEN [ok |-> TRUE, specs |-> <<>>]
    ELSE
        LET p == parse_dependency_spec(Head(toks))
            rest == ParseAll(dep_kind, Tail(toks))
        IN  IF ~p.ok \/ ~rest.ok THEN [ok |-> FALSE, specs |-> <<>>]
            ELSE [ok |-> TRUE, specs |-> <<[kind |-> dep_kind, spec |-> p.spec]>> \o rest.specs]

\* _read_dependency_specs: ok = FALSE stands for the ValueError that
\* parse_dependency_spec raises
read_dependency_specs(manifest, kind) ==
    IF ~manifest.file THEN [ok |-> TRUE, specs |-> <<>>]
    ELSE IF manifest.shape = "none" THEN [ok |-> TRUE, specs |-> <<>>]
    ELSE IF kind = "skill"
    THEN IF manifest.shape = "list" THEN ParseAll("skill", manifest.items)
         ELSE [ok |-> TRUE, specs |-> <<>>]
    ELSE IF manifest.shape = "dict"
    THEN LET sk == ParseAll("skill", manifest.items)
             ro == ParseAll("role", manifest.roles)
         IN  IF ~sk.ok \/ ~ro.ok THEN [ok |-> FALSE, specs |-> <<>>]
             ELSE [ok |-> TRUE, specs |-> sk.specs \o ro.specs]
    ELSE [ok |-> TRUE, specs |-> <<>>]

\* pkg_candidates.sort(key=parse_version, reverse=True): a stable insertion
RECURSIVE SortDesc(_)
SortDesc(cands) ==
    IF cands = <<>> THEN <<>>
    ELSE
        LET rest == SortDesc(Tail(cands))
            c == Head(cands)
            \* c goes before the first element that is not greater than it
            n == Cardinality({ i \in DOMAIN rest :
                     \A j \in 1..i : ParsedLess(parse_version(c.version),
                                                parse_version(rest[j].version)) })
        IN  SubSeq(rest, 1, n) \o <<c>> \o SubSeq(rest, n + 1, Len(rest))

\* the candidates sorted lowest first
SortAsc(cands) ==
    LET d == SortDesc(cands) IN [i \in DOMAIN d |-> d[Len(d) + 1 - i]]

ResolvedPackage(kind, slug, version, path, source) ==
    [kind |-> kind, slug |-> slug, version |-> version, path |-> path, source |-> source]

NoPackage == ResolvedPackage("-", "-", NoVersion, Path("-", "-", DirName("-", NoVersion)), "-")

\* what resolve produced: status "ok" with the root and the dependencies, or
\* status "error" with the exception type, its cause, the package it names
\* and the installed versions its message lists
Result(status, root, dependencies, etype, cause, pkg, listed) ==
    [status |-> status, root |-> root, dependencies |-> dependencies,
     etype |-> etype, cause |-> cause, pkg |-> pkg, listed |-> listed]

NoResult == Result("none", NoPackage, <<>>, "-", "-", <<"-", "-">>, <<>>)

Raise(etype, cause, pkg) == Result("error", NoPackage, <<>>, etype, cause, pkg, <<>>)

ResNotRunning ==
    /\ call = [slug |-> "-", kind |-> NoKind, version |-> NoVersion]
    /\ index = << >>
    /\ stack = <<>>
    /\ visiting = {}
    /\ resolved = <<>>
    /\ selected = <<>>
    /\ rpc = "idle"
    /\ result = NoResult

ResIdle ==
    /\ fs = {}
    /\ ResNotRunning

\* a memo that is never found: every reach resolves the package again
InResolved_never(k) == FALSE

\* key in resolved
InResolved(k) == \E i \in DOMAIN resolved : <<resolved[i].kind, resolved[i].slug>> = k

\* a cycle guard that overlooks the package resolve was called for
InVisiting_notroot(k) == k \in visiting /\ k # <<call.kind, call.slug>>

\* a cycle guard that never fires
InVisiting_never(k) == FALSE

\* key in visiting
InVisiting(k) == k \in visiting

\* the constraint filter of resolve_pkg
\* the candidates of resolve_pkg without the filter by the constraint
Candidates_unfiltered(idx, k, constraint) == IndexGet(idx, k)

Candidates(idx, k, constraint) ==
    IF constraint # NoSpec
    THEN SelectSeq(IndexGet(idx, k), LAMBDA c : satisfies_version(c.version, constraint))
    ELSE IndexGet(idx, k)

\* the choice of resolve_pkg
Best(cands) == Head(SortDesc(cands))

\* resolve_pkg(pkg_kind, pkg_slug, constraint) up to its first recursive call:
\* stk is the stack of the callers, idx the index
ResolvePkgEnter(pkg_kind, pkg_slug, constraint, stk, idx) ==
    LET k == <<pkg_kind, pkg_slug>>
        cands == Candidates(idx, k, constraint)
        best == Best(cands)
        deps_specs == read_dependency_specs(ManifestAt(fs, best.path), pkg_kind)
    IN  IF InResolved(k)
        THEN /\ stack' = stk
             /\ rpc' = "dfs"
             /\ UNCHANGED <<visiting, selected, result>>
        ELSE IF InVisiting(k)
        THEN /\ stack' = stk
             /\ rpc' = "error"
             /\ result' = Raise("DependencyError", "circular", k)
             /\ UNCHANGED <<visiting, selected>>
        ELSE IF cands = <<>>
        THEN /\ stack' = stk
             /\ visiting' = visiting \cup {k}
             /\ rpc' = "error"
             /\ result' = Raise("DependencyError", "unsatisfied", k)
             /\ UNCHANGED selected
        ELSE /\ visiting' = visiting \cup {k}
             /\ selected' = Append(selected,
                                [key |-> k, constraint |-> constraint, entry |-> best])
             /\ IF deps_specs.ok
                THEN /\ stack' = Append(stk, [kind |-> pkg_kind, slug |-> pkg_slug,
                                              best |-> best, deps |-> deps_specs.specs])
                     /\ rpc' = "dfs"
                     /\ UNCHANGED result
                ELSE /\ stack' = stk
                     /\ rpc' = "error"
                     /\ result' = Raise("ValueError", "invalid_spec", k)

\* the root constraint that ignores the version asked for
RootConstraint_none(slug, version) == NoSpec

\* root_constraint of resolve
RootConstraint(slug, version) ==
    IF version # NoVersion THEN DependencySpec(slug, "==", version) ELSE NoSpec

\* resolve(slug, kind, version) up to the first recursive call of resolve_pkg
ResolveStart ==
    /\ rpc = "idle"
    /\ \E slug \in SlugsOf(fs) \cup {"z"}, kind0 \in Kinds \cup {NoKind},
          version \in {NoVersion, V100, V200, V0100} :
           LET idx == build_index(fs)
               kind == IF kind0 # NoKind THEN kind0
                       ELSE IF InIndex(idx, <<"skill", slug>>) THEN "skill"
                       ELSE IF InIndex(idx, <<"role", slug>>) THEN "role"
                       ELSE NoKind
               candidates == IndexGet(idx, <<kind, slug>>)
               matches == SelectSeq(candidates, LAMBDA c : c.version = version)
               root_constraint == RootConstraint(slug, version)
           IN  /\ index' = idx
               /\ call' = [slug |-> slug, kind |-> kind, version |-> version]
               /\ UNCHANGED <<fs, resolved, lockVars, flowVars, verVars>>
               /\ IF kind = NoKind
                  THEN /\ rpc' = "error"
                       /\ result' = Raise("DependencyError", "not_installed_any", <<kind, slug>>)
                       /\ UNCHANGED <<stack, visiting, selected>>
                  ELSE IF candidates = <<>>
                  THEN /\ rpc' = "error"
                       /\ result' = Raise("DependencyError", "not_installed", <<kind, slug>>)
                       /\ UNCHANGED <<stack, visiting, selected>>
                  ELSE IF version # NoVersion /\ matches = <<>>
                  THEN /\ rpc' = "error"
                       /\ result' = Result("error", NoPackage, <<>>, "DependencyError",
                                           "version_not_installed", <<kind, slug>>,
                                           [i \in DOMAIN candidates |-> candidates[i].version])
                       /\ UNCHANGED <<stack, visiting, selected>>
                  ELSE ResolvePkgEnter(kind, slug, root_constraint, <<>>, idx)

\* the loop `for dep_kind, dep_spec in deps_specs` of the innermost call takes
\* its next dependency: resolve_pkg(dep_kind, dep_spec.slug, dep_spec)
ResolvePkgNext ==
    /\ rpc = "dfs"
    /\ stack # <<>>
    /\ stack[Len(stack)].deps # <<>>
    /\ LET top == stack[Len(stack)]
           dep == Head(top.deps)
           stk == [stack EXCEPT ![Len(stack)].deps = Tail(top.deps)]
       IN  ResolvePkgEnter(dep.kind, dep.spec.slug, dep.spec, stk, index)
    /\ UNCHANGED <<fs, call, index, resolved, lockVars, flowVars, verVars>>

\* the return of resolve_pkg without visiting.discard(key)
ResolvePkgReturn_nodiscard ==
    /\ rpc = "dfs"
    /\ stack # <<>>
    /\ stack[Len(stack)].deps = <<>>
    /\ LET top == stack[Len(stack)]
           k == <<top.kind, top.slug>>
           pkg == ResolvedPackage(top.kind, top.slug, top.best.version,
                                  top.best.path, top.best.scope)
       IN  /\ visiting' = visiting
           /\ resolved' =
                IF InResolved(k)
                THEN [i \in DOMAIN resolved |->
                        IF <<resolved[i].kind, resolved[i].slug>> = k THEN pkg
                        ELSE resolved[i]]
                ELSE Append(resolved, pkg)
    /\ stack' = SubSeq(stack, 1, Len(stack) - 1)
    /\ rpc' = IF Len(stack) = 1 THEN "format" ELSE "dfs"
    /\ UNCHANGED <<fs, call, index, selected, result, lockVars, flowVars, verVars>>

\* the innermost call has resolved all its dependencies: it leaves visiting,
\* records its ResolvedPackage and returns
ResolvePkgReturn ==
    /\ rpc = "dfs"
    /\ stack # <<>>
    /\ stack[Len(stack)].deps = <<>>
    /\ LET top == stack[Len(stack)]
           k == <<top.kind, top.slug>>
           pkg == ResolvedPackage(top.kind, top.slug, top.best.version,
                                  top.best.path, top.best.scope)
       IN  /\ visiting' = visiting \ {k}
           /\ resolved' =
                IF InResolved(k)
                THEN [i \in DOMAIN resolved |->
                        IF <<resolved[i].kind, resolved[i].slug>> = k THEN pkg
                        ELSE resolved[i]]
                ELSE Append(resolved, pkg)
    /\ stack' = SubSeq(stack, 1, Len(stack) - 1)
    /\ rpc' = IF Len(stack) = 1 THEN "format" ELSE "dfs"
    /\ UNCHANGED <<fs, call, index, selected, result, lockVars, flowVars, verVars>>

\* step 5 without the pop: the root stays among the dependencies
ResolveFormat_keeproot ==
    /\ rpc = "format"
    /\ LET i == CHOOSE j \in DOMAIN resolved :
                    <<resolved[j].kind, resolved[j].slug>> = <<call.kind, call.slug>>
       IN  result' = Result("ok", resolved[i], resolved, "-", "-", <<"-", "-">>, <<>>)
    /\ rpc' = "done"
    /\ UNCHANGED <<fs, call, index, stack, visiting, resolved, selected,
                   lockVars, flowVars, verVars>>

\* step 5 of resolve: the root is popped from resolved, the rest are the
\* dependencies
ResolveFormat ==
    /\ rpc = "format"
    /\ LET i == CHOOSE j \in DOMAIN resolved :
                    <<resolved[j].kind, resolved[j].slug>> = <<call.kind, call.slug>>
           rest == SubSeq(resolved, 1, i - 1) \o SubSeq(resolved, i + 1, Len(resolved))
       IN  /\ result' = Result("ok", resolved[i], rest, "-", "-", <<"-", "-">>, <<>>)
           /\ resolved' = rest
    /\ rpc' = "done"
    /\ UNCHANGED <<fs, call, index, stack, visiting, selected, lockVars, flowVars, verVars>>

ResolveNext ==
    \/ ResolveStart
    \/ ResolvePkgNext
    \/ ResolvePkgReturn
    \/ ResolveFormat

(***************************************************************************)
(* Lockfile state machine: the operations applied to an empty Lockfile     *)
(***************************************************************************)
NoKey == key(None)

RECURSIVE SumLen(_, _)
SumLen(d, i) == IF i = 0 THEN 0 ELSE Len(d[i].dependents) + SumLen(d, i - 1)

NumDependents(d) == SumLen(d, Len(d))

\* the record of a call: its name, the key given to is_orphan or remove_package,
\* and what is_orphan (flag) and collect_orphans (orphans) returned; for
\* remove_package, flag tells whether the key was listed as a dependent of
\* another entry when the call was made
Call(op, k, orphans, flag) ==
    [op |-> op, key |-> k, orphans |-> orphans, flag |-> flag]

NoRet == Call("none", NoKey, <<>>, FALSE)

ListedAsDependent(pkgs, k) ==
    \E i \in DOMAIN pkgs : pkgs[i].key # k /\ InSeq(k, pkgs[i].dependents)

LockIdle ==
    /\ direct_installs = <<>>
    /\ packages = <<>>
    /\ ret = NoRet

\* the packages the hub serves
RegistryKeys == {<<"role", "a">>, <<"skill", "b">>}

\* a dependency of strawpot.toml: (kind, slug, constraint), the constraint kept
\* as the parts of its text, like a dependency string of a manifest
DeclaredDep(kind, slug, constraint) ==
    [kind |-> kind, slug |-> slug, constraint |-> constraint]

\* the command was not started from strawpot.toml
NoDeclared == DeclaredDep("-", "-", Tok("", "?", NoVersion))

Cmd(op, update, recursive, root_ref, deps, orphans, declared) ==
    [op |-> op, update |-> update, recursive |-> recursive, root_ref |-> root_ref,
     deps |-> deps, orphans |-> orphans, declared |-> declared]

NoCmd == Cmd("none", FALSE, FALSE, None, <<>>, <<>>, NoDeclared)

\* no command is running and nothing was ever installed
FlowIdle ==
    /\ registry = [k \in RegistryKeys |-> V100]
    /\ saved = Missing
    /\ fpc = "idle"
    /\ cmd = NoCmd
    /\ fres = "none"

\* no call of version_spec was made
NoVCall == [a |-> NoVersion, b |-> NoVersion, c |-> NoVersion, operator |-> "none"]

NoVRet == [op |-> "none"]

VerIdle ==
    /\ vcall = NoVCall
    /\ vret = NoVRet

LockInit ==
    /\ LockIdle
    /\ ResIdle
    /\ FlowIdle
    /\ VerIdle

AddDirectInstall ==
    \E ref \in Refs :
        /\ Len(add_direct_install(direct_installs, ref)) <= MaxDirect
        /\ direct_installs' = add_direct_install(direct_installs, ref)
        /\ ret' = Call("add_direct_install", NoKey, <<>>, FALSE)
        /\ UNCHANGED <<packages, resVars, flowVars, verVars>>

RemoveDirectInstall ==
    \E ref \in Refs :
        /\ direct_installs' = remove_direct_install(direct_installs, ref)
        /\ ret' = Call("remove_direct_install", NoKey, <<>>, FALSE)
        /\ UNCHANGED <<packages, resVars, flowVars, verVars>>

AddPackage ==
    \E ref \in Refs, dependent \in Refs \cup {None} :
        /\ NumDependents(add_package(packages, ref, dependent)) <= MaxDependents
        /\ packages' = add_package(packages, ref, dependent)
        /\ ret' = Call("add_package", NoKey, <<>>, FALSE)
        /\ UNCHANGED <<direct_installs, resVars, flowVars, verVars>>

RemoveDependent ==
    \E package_key \in Keys, dependent_key \in Keys :
        /\ packages' = remove_dependent(packages, package_key, dependent_key)
        /\ ret' = Call("remove_dependent", NoKey, <<>>, FALSE)
        /\ UNCHANGED <<direct_installs, resVars, flowVars, verVars>>

RemovePackage ==
    \E package_key \in Keys :
        /\ packages' = remove_package(packages, package_key)
        /\ ret' = Call("remove_package", package_key, <<>>,
                        ListedAsDependent(packages, package_key))
        /\ UNCHANGED <<direct_installs, resVars, flowVars, verVars>>

IsOrphan ==
    \E package_key \in Keys :
        /\ ret' = Call("is_orphan", package_key, <<>>,
                        is_orphan(direct_installs, packages, package_key))
        /\ UNCHANGED <<direct_installs, packages, resVars, flowVars, verVars>>

CollectOrphans ==
    /\ ret' = Call("collect_orphans", NoKey,
                    collect_orphans(direct_installs, packages), FALSE)
    /\ packages' = collect_orphans_packages(direct_installs, packages)
    /\ UNCHANGED <<direct_installs, resVars, flowVars, verVars>>

LockNext ==
    \/ AddDirectInstall
    \/ RemoveDirectInstall
    \/ AddPackage
    \/ RemoveDependent
    \/ RemovePackage
    \/ IsOrphan
    \/ CollectOrphans

Spec == LockInit /\ [][LockNext]_vars

\* collect_orphans() followed by remove_package on every key it returned, as
\* the uninstall command does between loading and saving
RemoveOrphans ==
    /\ ret' = Call("remove_orphans", NoKey,
                    collect_orphans(direct_installs, packages), FALSE)
    /\ packages' = remove_orphans(packages, collect_orphans(direct_installs, packages))
    /\ UNCHANGED <<direct_installs, resVars, flowVars, verVars>>

SweepNext ==
    \/ LockNext
    \/ RemoveOrphans

SpecSweep == LockInit /\ [][SweepNext]_vars

(***************************************************************************)
(* The Lockfile and its file: a run builds a Lockfile and saves it, later  *)
(* runs load and save it, and the file may be edited in between            *)
(***************************************************************************)
\* strawpot.lock contents no save() wrote: a text that is not JSON, `[]`,
\* `{}`, a direct install without its version, and a document with only the
\* "packages" member
EditedFiles ==
    { File(NotJson),
      File(dumps(JArr(<<>>))),
      File(dumps(JObj(<<>>))),
      File(dumps(JObj(<<
          Member("version", JNum(1)),
          Member("directInstalls",
                 JArr(<<JObj(<<Member("kind", JStr("role")),
                               Member("slug", JStr("a"))>>)>>)),
          Member("packages", JObj(<<>>))>>))),
      File(dumps(JObj(<<
          Member("packages",
                 JObj(<<Member(key(PackageRef("role", "a", V100)),
                               EntryObject(NewEntry(PackageRef("role", "a", V100))))>>))>>))) }

\* the operations of the run that creates strawpot.lock
FileMutate ==
    /\ saved = Missing
    /\ \/ AddDirectInstall
       \/ RemoveDirectInstall
       \/ AddPackage
       \/ RemoveDependent
       \/ RemovePackage

Save ==
    /\ saved' = save(direct_installs, packages)
    /\ ret' = Call("save", NoKey, <<>>, FALSE)
    /\ UNCHANGED <<direct_installs, packages, resVars, registry, fpc, cmd, fres, verVars>>

\* Lockfile.load(path): the Lockfile it returns replaces the one in memory;
\* when it raises there is no new Lockfile
Load ==
    LET r == load(saved)
    IN  /\ ret' = [op |-> "load", key |-> NoKey, orphans |-> <<>>,
                   flag |-> r.ok, etype |-> r.etype]
        /\ IF r.ok
           THEN /\ direct_installs' = r.direct_installs
                /\ packages' = r.packages
           ELSE UNCHANGED <<direct_installs, packages>>
        /\ UNCHANGED <<resVars, flowVars, verVars>>

\* between two runs the file is edited or truncated by hand
EditFile ==
    /\ saved # Missing
    /\ \E f \in EditedFiles : saved' = f
    /\ ret' = NoRet
    /\ UNCHANGED <<direct_installs, packages, resVars, registry, fpc, cmd, fres, verVars>>

FileNext ==
    \/ FileMutate
    \/ Save
    \/ Load
    \/ EditFile

SpecFile == LockInit /\ [][FileNext]_vars

(***************************************************************************)
(* version_spec.py called on version strings: three strings and an         *)
(* operator are drawn, then compared and matched                           *)
(***************************************************************************)
VersionInit ==
    /\ LockIdle
    /\ ResIdle
    /\ FlowIdle
    /\ vcall \in [a : VersionStrings, b : VersionStrings, c : VersionStrings,
                  operator : Operators]
    /\ vret = NoVRet

\* the strings of the call by position
Arg(i) == IF i = 1 THEN vcall.a ELSE IF i = 2 THEN vcall.b ELSE vcall.c

\* compare_versions(parse_version(x), parse_version(y)) for every two of the
\* three strings
CompareVersions ==
    /\ vret' = [op |-> "compare_versions",
                cmp |-> [i \in 1..3, j \in 1..3 |->
                           compare_versions(parse_version(Arg(i)), parse_version(Arg(j)))]]
    /\ UNCHANGED <<vcall, lockVars, resVars, flowVars>>

\* the DependencySpec parse_dependency_spec builds for the operator: a bare
\* slug has operator "latest" and no version
SpecOf(operator, version) ==
    IF operator = "latest"
    THEN DependencySpec("s", "latest", NoVersion)
    ELSE DependencySpec("s", operator, version)

\* satisfies_version(a, spec) with b the version of the spec
SatisfiesVersion ==
    /\ vret' = [op |-> "satisfies_version",
                value |-> satisfies_version(vcall.a, SpecOf(vcall.operator, vcall.b))]
    /\ UNCHANGED <<vcall, lockVars, resVars, flowVars>>

VersionNext ==
    \/ CompareVersions
    \/ SatisfiesVersion

SpecVersion == VersionInit /\ [][VersionNext]_vars

(***************************************************************************)
(* The installed sets resolve is run on                                    *)
(***************************************************************************)
SeqsUpTo(S, n) == UNION { [1..m -> S] : m \in 0..n }

\* every constraint a dependency string on slug can carry
Constrained(slug) ==
    {Bare(slug), Tok(slug, "==", V0100)}
        \cup { Tok(slug, op, v) : op \in {"==", ">=", "^"}, v \in Versions }

LocalSkill(slug, items) == Dir("local", "skill", slug, V100, ManList(items))

\* graphs: roles a and r and skills b, c, d, one version each in the local
\* scope, d possibly missing; any bare-slug declarations (diamonds, chains,
\* cycles); r depends on skill c and on role a
FsGraph ==
    { {Dir("local", "role", "a", V100, ManDict(sk, ro)),
       Dir("local", "role", "r", V100, ManDict(<<Bare("c")>>, <<Bare("a")>>)),
       LocalSkill("b", db), LocalSkill("c", dc)} \cup dd :
        sk \in SeqsUpTo({Bare("b"), Bare("c"), Bare("d")}, MaxDeps),
        ro \in {<<>>, <<Bare("a")>>, <<Bare("r")>>},
        db \in {<<>>, <<Bare("b")>>, <<Bare("c")>>, <<Bare("d")>>},
        dc \in {<<>>, <<Bare("b")>>, <<Bare("d")>>},
        dd \in {{}, {LocalSkill("d", <<>>)}, {LocalSkill("d", <<Bare("b")>>)}} }

VersionDirs(scope, kind, slug, vs, manifest) ==
    { Dir(scope, kind, slug, v, manifest) : v \in vs }

\* versions: role a depends on skill d under any constraint; d is installed
\* at any versions in the two scopes; a may also be installed at 2.0.0
FsVersions ==
    { {Dir("local", "role", "a", V100, ManDict(<<t>>, <<>>))}
        \cup VersionDirs("local", "role", "a", a2, NoDeps)
        \cup VersionDirs("local", "skill", "d", lv, NoDeps)
        \cup VersionDirs("global", "skill", "d", gv, NoDeps) :
        t \in Constrained("d"), a2 \in {{}, {V200}},
        lv \in SUBSET Versions, gv \in SUBSET Versions }

\* two paths to d: role a depends on b and then on d under t2, b depends on d
\* under t1
FsTwoPaths ==
    { {Dir("local", "role", "a", V100, ManDict(<<Bare("b"), t2>>, <<>>)),
       LocalSkill("b", <<t1>>)}
        \cup VersionDirs("local", "skill", "d", lv, NoDeps) :
        t1 \in Constrained("d"), t2 \in Constrained("d"),
        lv \in SUBSET Versions \ {{}} }

\* kinds and stray entries: slug a installed as a skill and as a role at any
\* of two versions, with a manifest of either shape or none, next to a plain
\* file named like a package and a directory with no version in its name
FsKinds ==
    { VersionDirs("local", "skill", "a", sv, m)
        \cup VersionDirs("global", "role", "a", rv, m)
        \cup {DirEntry("local", "skill", DirName("b", V100), FALSE, NoFile),
              DirEntry("local", "skill", DirName("nope", NoVersion), TRUE, NoDeps)} :
        sv \in SUBSET {V100, V200}, rv \in SUBSET {V100, V200},
        m \in {NoFile, NoDeps, ManList(<<Bare("b")>>), ManDict(<<Bare("b")>>, <<>>)} }

\* manifests with a dependency string that does not parse
FsMalformed ==
    { {LocalSkill("b", db), LocalSkill("c", <<>>)} :
        db \in SeqsUpTo({Bare("b"), Bare("c"), Malformed}, 2) }

FileSystems == FsGraph \cup FsVersions \cup FsTwoPaths \cup FsKinds \cup FsMalformed

ResolveInit ==
    /\ LockIdle
    /\ fs \in FileSystems
    /\ ResNotRunning
    /\ FlowIdle
    /\ VerIdle

SpecResolve == ResolveInit /\ [][ResolveNext]_vars

\* resolve run on the graphs, where the declarations form chains, diamonds
\* and cycles
ResolveGraphInit ==
    /\ LockIdle
    /\ fs \in FsGraph
    /\ ResNotRunning
    /\ FlowIdle
    /\ VerIdle

\* a step of a call of resolve that has been made
ResolveStep ==
    \/ ResolvePkgNext
    \/ ResolvePkgReturn
    \/ ResolveFormat

\* resolve is one sequential call: nothing obliges the caller to make it, but
\* once made it runs on, a step at a time, until it returns or raises
SpecResolveFair == ResolveGraphInit /\ [][ResolveNext]_vars /\ WF_vars(ResolveStep)

(***************************************************************************)
(* The install, uninstall and update commands (paths.py, commands/*.py)    *)
(***************************************************************************)
\* get_root(is_global) of the commands: they are run on the local root
Root == "local"

\* dependencies.skills of a package's detail on the hub
RegistrySkills(slug) == IF slug = "a" THEN <<"b">> ELSE <<>>

\* the frontmatter of the main file the hub serves for a package
RegistryManifest(kind, slug) ==
    LET toks == [i \in DOMAIN RegistrySkills(slug) |-> Bare(RegistrySkills(slug)[i])]
    IN  IF kind = "role" THEN ManDict(toks, <<>>) ELSE ManList(toks)

package_exists(files, root, kind, slug, version) ==
    \E e \in files : /\ e.is_dir /\ e.scope = root /\ e.kind = kind
                     /\ e.name = DirName(slug, version)

find_installed_versions(files, root, kind, slug) ==
    { parse_dir_name(e.name)[2] :
        e \in { x \in files : /\ x.is_dir /\ x.scope = root /\ x.kind = kind
                              /\ parse_dir_name(x.name) # <<>>
                              /\ parse_dir_name(x.name)[1] = slug } }

\* _slug_installed_in_scope: the highest version found, or None
slug_installed_in_scope(files, root, kind, slug) ==
    LET versions == find_installed_versions(files, root, kind, slug)
    IN  IF versions = {} THEN NoVersion
        ELSE CHOOSE v \in versions :
                 \A w \in versions : ~ParsedLess(parse_version(v), parse_version(w))

slug_installed_anywhere(files, kind, slug) ==
    \/ find_installed_versions(files, "local", kind, slug) # {}
    \/ find_installed_versions(files, "global", kind, slug) # {}

\* _find_slug_anywhere: (root, version), local before global, or None
NotFound == [root |-> "-", version |-> NoVersion]

find_slug_anywhere(files, kind, slug) ==
    IF slug_installed_in_scope(files, "local", kind, slug) # NoVersion
    THEN [root |-> "local", version |-> slug_installed_in_scope(files, "local", kind, slug)]
    ELSE IF slug_installed_in_scope(files, "global", kind, slug) # NoVersion
    THEN [root |-> "global", version |-> slug_installed_in_scope(files, "global", kind, slug)]
    ELSE NotFound

\* shutil.rmtree(get_package_dir(root, kind, slug, version)) if it is a dir
rmtree(files, root, kind, slug, version) ==
    { e \in files : ~(/\ e.is_dir /\ e.scope = root /\ e.kind = kind
                      /\ e.name = DirName(slug, version)) }

\* _download_package: the directory is made first, then the files are
\* fetched; when the hub fails (ok = FALSE) a new directory stays empty
download_package(files, ok, root, kind, slug, target_version) ==
    IF ok
    THEN rmtree(files, root, kind, slug, target_version)
             \cup {Dir(root, kind, slug, target_version, RegistryManifest(kind, slug))}
    ELSE IF package_exists(files, root, kind, slug, target_version) THEN files
    ELSE files \cup {Dir(root, kind, slug, target_version, NoFile)}

\* the in-memory Lockfile and the directories, as the helpers change them
World(files, di, pkgs) == [fs |-> files, direct_installs |-> di, packages |-> pkgs]

\* _remove_from_scope without lockfile.remove_direct_install(ref)
remove_from_scope_keepdirect(w, root, kind, slug) ==
    LET version == slug_installed_in_scope(w.fs, root, kind, slug)
        ref == PackageRef(kind, slug, version)
    IN  IF version = NoVersion THEN w
        ELSE World(rmtree(w.fs, root, kind, slug, version),
                   w.direct_installs,
                   remove_package(w.packages, key(ref)))

\* _remove_from_scope
remove_from_scope(w, root, kind, slug) ==
    LET version == slug_installed_in_scope(w.fs, root, kind, slug)
        ref == PackageRef(kind, slug, version)
    IN  IF version = NoVersion THEN w
        ELSE World(rmtree(w.fs, root, kind, slug, version),
                   remove_direct_install(w.direct_installs, ref),
                   remove_package(w.packages, key(ref)))

\* shutil.rmtree of _remove_from_scope raises OSError (ok = FALSE): the
\* directory stays, nothing was removed from the Lockfile yet, and no except
\* clause of the command catches it
remove_from_scope_raises(files, ok, root, kind, slug) ==
    ~ok /\ slug_installed_in_scope(files, root, kind, slug) # NoVersion

\* whether the hub answers the next download: it may fail while fewer than
\* MaxFailed directories are left empty
HubAnswers(files) ==
    IF Cardinality({ e \in files : e.is_dir /\ e.manifest = NoFile }) < MaxFailed
    THEN BOOLEAN ELSE {TRUE}

\* an entry of a dep_list
Dep(kind, slug, version) == [kind |-> kind, slug |-> slug, version |-> version]

\* _resolve_skill_deps, st = [visited, dep_list]; the loop over skill_deps is
\* resolve_each
RECURSIVE resolve_skill_deps(_, _, _)
RECURSIVE resolve_each(_, _, _)
resolve_skill_deps(reg, slug, st) ==
    IF slug \in st.visited THEN st
    ELSE
        LET s1 == resolve_each(reg, RegistrySkills(slug),
                               [st EXCEPT !.visited = @ \cup {slug}])
        IN  [s1 EXCEPT !.dep_list = Append(@, Dep("skill", slug, reg[<<"skill", slug>>]))]

resolve_each(reg, skill_deps, st) ==
    IF skill_deps = <<>> THEN st
    ELSE resolve_each(reg, Tail(skill_deps),
                      resolve_skill_deps(reg, Head(skill_deps), st))

\* _resolve_deps: a role's list is the hub's answer (its skills, dependencies
\* first, at their latest versions); a skill's is built from the details
resolve_deps(reg, kind, slug) ==
    IF kind = "role"
    THEN resolve_each(reg, RegistrySkills(slug), [visited |-> {}, dep_list |-> <<>>]).dep_list
    ELSE SelectSeq(resolve_skill_deps(reg, slug, [visited |-> {}, dep_list |-> <<>>]).dep_list,
                   LAMBDA d : d.slug # slug)

\* the command returns or exits with nothing in memory left unsaved
FlowExit(res) ==
    /\ fpc' = "idle"
    /\ cmd' = NoCmd
    /\ fres' = res

\* "ensure registered as direct install": add_package, add_direct_install and
\* save, unless the ref is one already
RegisterDirect(existing_ref) ==
    /\ IF ~is_direct_install(direct_installs, key(existing_ref))
       THEN /\ packages' = add_package(packages, existing_ref, None)
            /\ direct_installs' = add_direct_install(direct_installs, existing_ref)
            /\ saved' = save(direct_installs', packages')
       ELSE UNCHANGED <<direct_installs, packages, saved>>
    /\ FlowExit("ok")
    /\ UNCHANGED fs

\* _install_impl from Lockfile.load to the call of _resolve_deps; declared is
\* the strawpot.toml dependency the call was made for, if any
InstallImplBegin(k, update, recursive, version, force, rm, declared) ==
    LET kind == k[1]
        slug == k[2]
        \* the hub answers a request for a version it does not have with
        \* another version or NotFoundError; either way the command exits
        available == \/ version = NoVersion
                     \/ compare_versions(parse_version(version),
                                         parse_version(registry[k])) <= 0
        target_version == IF version # NoVersion THEN version ELSE registry[k]
        root_ref == PackageRef(kind, slug, target_version)
        existing_in_scope == slug_installed_in_scope(fs, Root, kind, slug)
        found == find_slug_anywhere(fs, kind, slug)
        w0 == World(fs, direct_installs, packages)
        w == IF existing_in_scope # NoVersion /\ (version # NoVersion \/ update)
             THEN remove_from_scope(w0, Root, kind, slug)
             ELSE w0
    IN  IF ~available
        THEN FlowExit("error") /\ UNCHANGED <<fs, direct_installs, packages, saved>>
        ELSE IF version # NoVersion /\ existing_in_scope # NoVersion /\ ~force
        THEN FlowExit("error") /\ UNCHANGED <<fs, direct_installs, packages, saved>>
        ELSE IF /\ version = NoVersion /\ update /\ existing_in_scope # NoVersion
                /\ compare_versions(parse_version(target_version),
                                    parse_version(existing_in_scope)) <= 0
        THEN RegisterDirect(PackageRef(kind, slug, existing_in_scope))
        ELSE IF version = NoVersion /\ ~update /\ slug_installed_anywhere(fs, kind, slug)
        THEN IF package_exists(fs, Root, kind, slug, found.version)
             THEN RegisterDirect(PackageRef(kind, slug, found.version))
             ELSE FlowExit("ok") /\ UNCHANGED <<fs, direct_installs, packages, saved>>
        ELSE IF /\ existing_in_scope # NoVersion /\ (version # NoVersion \/ update)
                /\ remove_from_scope_raises(fs, rm, Root, kind, slug)
        THEN /\ fpc' = "failed"
             /\ cmd' = Cmd("install", update, recursive, root_ref, <<>>, <<>>, declared)
             /\ UNCHANGED <<fs, direct_installs, packages, saved, fres>>
        ELSE /\ fs' = w.fs
             /\ direct_installs' = w.direct_installs
             /\ packages' = w.packages
             /\ cmd' = Cmd("install", update, recursive, root_ref,
                           resolve_deps(registry, kind, slug), <<>>, declared)
             /\ fpc' = "deps"
             /\ UNCHANGED <<saved, fres>>

\* `strawhub install skill|role <slug>` with its options
InstallBegin ==
    /\ fpc = "idle"
    /\ \E k \in RegistryKeys, update \in BOOLEAN, recursive \in BOOLEAN,
          version \in {NoVersion, V100, V200}, force \in BOOLEAN, rm \in BOOLEAN :
        InstallImplBegin(k, update, recursive, version, force, rm, NoDeclared)
    /\ UNCHANGED <<registry, ret, call, index, stack, visiting, resolved, selected,
                   rpc, result, verVars>>

\* one round of `for dep in dep_list`; a download the hub fails (ok = FALSE)
\* raises StrawHubError, a directory that cannot be deleted (rm = FALSE)
\* raises OSError, and the command exits without saving
InstallDep ==
    /\ fpc = "deps"
    /\ cmd.deps # <<>>
    /\ \E ok \in HubAnswers(fs), rm \in BOOLEAN :
        LET dep == Head(cmd.deps)
            root_ref == cmd.root_ref
            existing_dep_in_scope == slug_installed_in_scope(fs, Root, dep.kind, dep.slug)
            existing_dep_anywhere == find_slug_anywhere(fs, dep.kind, dep.slug)
            w0 == World(fs, direct_installs, packages)
            removed == remove_from_scope(w0, Root, dep.kind, dep.slug)
            \* what the round leaves, and whether it ran to its end
            out ==
              IF cmd.update /\ cmd.recursive /\ existing_dep_in_scope # NoVersion
              THEN IF compare_versions(parse_version(dep.version),
                                       parse_version(existing_dep_in_scope)) > 0
                   THEN IF remove_from_scope_raises(fs, rm, Root, dep.kind, dep.slug)
                        THEN [w |-> w0, done |-> FALSE]
                        ELSE
                        [w |-> World(download_package(removed.fs, ok, Root, dep.kind,
                                                      dep.slug, dep.version),
                                     removed.direct_installs,
                                     IF ok
                                     THEN add_package(removed.packages,
                                              PackageRef(dep.kind, dep.slug, dep.version),
                                              root_ref)
                                     ELSE removed.packages),
                         done |-> ok]
                   ELSE [w |-> World(fs, direct_installs,
                                     IF package_exists(fs, Root, dep.kind, dep.slug,
                                                       existing_dep_in_scope)
                                     THEN add_package(packages,
                                              PackageRef(dep.kind, dep.slug,
                                                         existing_dep_in_scope),
                                              root_ref)
                                     ELSE packages),
                         done |-> TRUE]
              ELSE IF existing_dep_anywhere # NotFound
              THEN [w |-> World(fs, direct_installs,
                                IF package_exists(fs, Root, dep.kind, dep.slug,
                                                  existing_dep_anywhere.version)
                                THEN add_package(packages,
                                         PackageRef(dep.kind, dep.slug,
                                                    existing_dep_anywhere.version),
                                         root_ref)
                                ELSE packages),
                    done |-> TRUE]
              ELSE [w |-> World(download_package(fs, ok, Root, dep.kind, dep.slug,
                                                 dep.version),
                                direct_installs,
                                IF ok
                                THEN add_package(packages,
                                         PackageRef(dep.kind, dep.slug, dep.version),
                                         root_ref)
                                ELSE packages),
                    done |-> ok]
        IN  /\ fs' = out.w.fs
            /\ direct_installs' = out.w.direct_installs
            /\ packages' = out.w.packages
            /\ IF out.done
               THEN fpc' = "deps" /\ cmd' = [cmd EXCEPT !.deps = Tail(@)]
               ELSE fpc' = "failed" /\ cmd' = cmd
    /\ UNCHANGED <<saved, fres, registry, ret, call, index, stack, visiting, resolved,
                   selected, rpc, result, verVars>>

\* after the loop: the root is downloaded and registered, the orphans are
\* collected
InstallRoot ==
    /\ fpc = "deps"
    /\ cmd.deps = <<>>
    /\ \E ok \in HubAnswers(fs) :
        LET root_ref == cmd.root_ref
        IN  /\ fs' = download_package(fs, ok, Root, root_ref.kind, root_ref.slug,
                                      root_ref.version)
            /\ IF ok
               THEN /\ packages' = add_package(packages, root_ref, None)
                    /\ direct_installs' = add_direct_install(direct_installs, root_ref)
                    /\ cmd' = [cmd EXCEPT !.orphans =
                                   collect_orphans(direct_installs', packages')]
                    /\ fpc' = "cleanup"
               ELSE /\ fpc' = "failed"
                    /\ UNCHANGED <<direct_installs, packages, cmd>>
    /\ UNCHANGED <<saved, fres, registry, ret, call, index, stack, visiting, resolved,
                   selected, rpc, result, verVars>>

\* a round of `for key in orphans` that goes on when shutil.rmtree fails: the
\* directory stays and the entry is removed all the same
RemoveOrphan_goeson(k, ok) ==
    IF HasKey(packages, k)
    THEN LET pkg == DictGet(packages, k)
         IN  /\ fs' = IF ok THEN rmtree(fs, Root, pkg.kind, pkg.slug, pkg.version) ELSE fs
             /\ packages' = remove_package(packages, k)
             /\ cmd' = [cmd EXCEPT !.orphans = Tail(@)]
             /\ UNCHANGED fpc
    ELSE /\ cmd' = [cmd EXCEPT !.orphans = Tail(@)]
         /\ UNCHANGED <<fs, packages, fpc>>

\* one round of `for key in orphans`: the directory goes, then the entry;
\* when shutil.rmtree raises OSError (ok = FALSE) the directory and the entry
\* stay and the command ends there, without saving
RemoveOrphan(k, ok) ==
    IF HasKey(packages, k)
    THEN LET pkg == DictGet(packages, k)
         IN  IF ~ok /\ package_exists(fs, Root, pkg.kind, pkg.slug, pkg.version)
             THEN /\ fpc' = "failed"
                  /\ UNCHANGED <<fs, packages, cmd>>
             ELSE /\ fs' = rmtree(fs, Root, pkg.kind, pkg.slug, pkg.version)
                  /\ packages' = remove_package(packages, k)
                  /\ cmd' = [cmd EXCEPT !.orphans = Tail(@)]
                  /\ UNCHANGED fpc
    ELSE /\ cmd' = [cmd EXCEPT !.orphans = Tail(@)]
         /\ UNCHANGED <<fs, packages, fpc>>

InstallCleanup ==
    /\ fpc = "cleanup"
    /\ cmd.op = "install"
    /\ cmd.orphans # <<>>
    /\ \E ok \in BOOLEAN : RemoveOrphan(Head(cmd.orphans), ok)
    /\ UNCHANGED <<direct_installs, saved, fres, registry, ret, call, index, stack,
                   visiting, resolved, selected, rpc, result, verVars>>

\* lockfile.save() and the end of the command
InstallSave ==
    /\ fpc = "cleanup"
    /\ cmd.op = "install"
    /\ cmd.orphans = <<>>
    /\ saved' = save(direct_installs, packages)
    /\ FlowExit("ok")
    /\ UNCHANGED <<fs, direct_installs, packages, registry, ret, call, index, stack,
                   visiting, resolved, selected, rpc, result, verVars>>

\* _find_targets: the direct installs of the slug and kind, of version ver
\* when one is given
find_targets(di, slug, kind, ver) ==
    SelectSeq(di, LAMBDA ref : /\ ref.slug = slug /\ ref.kind = kind
                               /\ (ver = NoVersion \/ ref.version = ver))

RECURSIVE remove_direct_installs(_, _)
remove_direct_installs(di, targets) ==
    IF targets = <<>> THEN di
    ELSE remove_direct_installs(remove_direct_install(di, Head(targets)), Tail(targets))

\* _uninstall_impl from Lockfile.load to collect_orphans()
UninstallBegin ==
    /\ fpc = "idle"
    /\ \E k \in RegistryKeys, ver \in {NoVersion, V100, V200} :
        LET targets == find_targets(direct_installs, k[2], k[1], ver)
        IN  IF packages = <<>> \/ targets = <<>>
            THEN FlowExit("error") /\ UNCHANGED direct_installs
            ELSE /\ direct_installs' = remove_direct_installs(direct_installs, targets)
                 /\ cmd' = Cmd("uninstall", FALSE, FALSE, None, <<>>,
                               collect_orphans(direct_installs', packages), NoDeclared)
                 /\ fpc' = "cleanup"
                 /\ UNCHANGED fres
    /\ UNCHANGED <<fs, packages, saved, registry, ret, call, index, stack, visiting,
                   resolved, selected, rpc, result, verVars>>

UninstallCleanup ==
    /\ fpc = "cleanup"
    /\ cmd.op = "uninstall"
    /\ cmd.orphans # <<>>
    /\ \E ok \in BOOLEAN : RemoveOrphan(Head(cmd.orphans), ok)
    /\ UNCHANGED <<direct_installs, saved, fres, registry, ret, call, index, stack,
                   visiting, resolved, selected, rpc, result, verVars>>

UninstallSave ==
    /\ fpc = "cleanup"
    /\ cmd.op = "uninstall"
    /\ cmd.orphans = <<>>
    /\ saved' = save(direct_installs, packages)
    /\ FlowExit("ok")
    /\ UNCHANGED <<fs, direct_installs, packages, registry, ret, call, index, stack,
                   visiting, resolved, selected, rpc, result, verVars>>

\* _update_one_impl / _update_all_impl up to the call of _update_targets: the
\* Lockfile is loaded and the targets are chosen among the direct installs
UpdateBegin ==
    /\ fpc = "idle"
    /\ \E update_all \in BOOLEAN, k \in RegistryKeys :
        LET targets == IF update_all THEN direct_installs
                       ELSE SelectSeq(direct_installs,
                                LAMBDA r : r.slug = k[2] /\ r.kind = k[1])
        IN  IF direct_installs = <<>> \/ targets = <<>>
            THEN FlowExit("error")
            ELSE /\ fpc' = "update"
                 /\ cmd' = Cmd("update", FALSE, FALSE, Head(targets), <<>>, <<>>,
                               NoDeclared)
                 /\ UNCHANGED fres
    /\ UNCHANGED <<fs, direct_installs, packages, saved, registry, ret, call, index,
                   stack, visiting, resolved, selected, rpc, result, verVars>>

\* _update_targets for the first target: every package of the lockfile is on
\* the hub, so it reaches compare_versions(latest_version, ref.version) with
\* the two version strings; reading .major of a str raises AttributeError,
\* which neither except clause catches: the command ends there, before any
\* change and without saving
UpdateTarget ==
    /\ fpc = "update"
    /\ FlowExit("AttributeError")
    /\ UNCHANGED <<fs, direct_installs, packages, saved, registry, ret, call, index,
                   stack, visiting, resolved, selected, rpc, result, verVars>>

\* an error exit that writes the Lockfile it has in memory
ExitUnsaved_saving ==
    /\ fpc = "failed"
    /\ saved' = save(direct_installs, packages)
    /\ FlowExit("error")
    /\ UNCHANGED <<fs, direct_installs, packages, registry, ret, call, index, stack,
                   visiting, resolved, selected, rpc, result, verVars>>

\* SystemExit(1) after a StrawHubError, or the traceback of an OSError: the
\* Lockfile object is dropped unsaved, the next command loads the file as it was
ExitUnsaved ==
    /\ fpc = "failed"
    /\ direct_installs' = load(saved).direct_installs
    /\ packages' = load(saved).packages
    /\ FlowExit("error")
    /\ UNCHANGED <<fs, saved, registry, ret, call, index, stack, visiting, resolved,
                   selected, rpc, result, verVars>>

\* between two commands a new version of a package is published
Publish ==
    /\ fpc = "idle"
    /\ \E k \in RegistryKeys :
        /\ registry[k] = V100
        /\ Cardinality({ j \in RegistryKeys : registry[j] = V200 }) < MaxPublished
        /\ registry' = [registry EXCEPT ![k] = V200]
    /\ UNCHANGED <<fs, direct_installs, packages, saved, fpc, cmd, fres, ret, call,
                   index, stack, visiting, resolved, selected, rpc, result, verVars>>

\* the constraints strawpot.toml may declare: *, ^1.0.0, ^2.0.0, ==1.0.0,
\* ==2.0.0, >=2.0.0 and a text that is no constraint
Constraints ==
    { Tok("", "", NoVersion), Tok("", "^", V100), Tok("", "^", V200),
      Tok("", "==", V100), Tok("", "==", V200), Tok("", ">=", V200),
      Tok("", "?", NoVersion) }

\* _install_from_project_file up to its loop, for a strawpot.toml that
\* declares one dependency
ProjectBegin ==
    /\ fpc = "idle"
    /\ \E k \in RegistryKeys, constraint \in Constraints :
        cmd' = Cmd("project", FALSE, FALSE, None, <<>>, <<>>,
                   DeclaredDep(k[1], k[2], constraint))
    /\ fpc' = "project"
    /\ UNCHANGED <<fs, direct_installs, packages, saved, fres, registry, ret, call,
                   index, stack, visiting, resolved, selected, rpc, result, verVars>>

\* the body of `for dep_kind, dep_slug, constraint_str in ...`: a dependency
\* whose installed version satisfies the constraint is skipped, any other one
\* goes to _install_impl, with --version and --force only for an == constraint
ProjectDep ==
    /\ fpc = "project"
    /\ LET dep_kind == cmd.declared.kind
           dep_slug == cmd.declared.slug
           existing == slug_installed_in_scope(fs, Root, dep_kind, dep_slug)
           parsed == parse_constraint(cmd.declared.constraint)
           spec == parsed.spec
           full_spec == DependencySpec(dep_slug, spec.operator, spec.version)
           version_arg == IF spec.operator = "==" THEN spec.version ELSE NoVersion
           force_arg == existing # NoVersion /\ version_arg # NoVersion
       IN  IF ~parsed.ok
           THEN /\ FlowExit("ValueError")
                /\ UNCHANGED <<fs, direct_installs, packages, saved>>
           ELSE IF existing # NoVersion /\ satisfies_version(existing, full_spec)
           THEN /\ FlowExit("ok")
                /\ UNCHANGED <<fs, direct_installs, packages, saved>>
           ELSE \E rm \in BOOLEAN :
                    InstallImplBegin(<<dep_kind, dep_slug>>, FALSE, FALSE, version_arg,
                                     force_arg, rm, cmd.declared)
    /\ UNCHANGED <<registry, ret, call, index, stack, visiting, resolved, selected,
                   rpc, result, verVars>>

FlowNext ==
    \/ InstallBegin
    \/ InstallDep
    \/ InstallRoot
    \/ InstallCleanup
    \/ InstallSave
    \/ UninstallBegin
    \/ UninstallCleanup
    \/ UninstallSave
    \/ UpdateBegin
    \/ UpdateTarget
    \/ ExitUnsaved
    \/ Publish

\* the local root starts empty; the global root may hold skill b
FlowInit ==
    /\ LockIdle
    /\ fs \in {{}, {Dir("global", "skill", "b", V100, RegistryManifest("skill", "b"))}}
    /\ ResNotRunning
    /\ FlowIdle
    /\ VerIdle

SpecFlow == FlowInit /\ [][FlowNext]_vars

\* `strawhub install` with no subcommand, run between installs from the
\* command line while the hub publishes and strawpot.toml is edited
ProjectNext ==
    \/ InstallBegin
    \/ ProjectBegin
    \/ ProjectDep
    \/ InstallDep
    \/ InstallRoot
    \/ InstallCleanup
    \/ InstallSave
    \/ ExitUnsaved
    \/ Publish

SpecProject == FlowInit /\ [][ProjectNext]_vars

(***************************************************************************)
(* Properties of the Lockfile                                              *)
(***************************************************************************)
KeySet(pkgs) == { pkgs[i].key : i \in DOMAIN pkgs }

Dependents(pkgs, k) == Range(DictGet(pkgs, k).dependents)

kA == key(PackageRef("role", "a", V100))
kB == key(PackageRef("role", "b", V100))
kC == key(PackageRef("skill", "c", V100))

\* the entries that survive the cascade: the largest set of entries each of
\* which is a direct install or has a dependent inside the set
Survivors(di, pkgs) ==
    UNION { S \in SUBSET KeySet(pkgs) :
              \A k \in S : is_direct_install(di, k) \/ Dependents(pkgs, k) \cap S # {} }

\* the entries a direct install needs: the direct installs that are entries,
\* and every entry that has a needed entry among its dependents
RECURSIVE NeededFrom(_, _)
NeededFrom(pkgs, N) ==
    LET more == { k \in KeySet(pkgs) : Dependents(pkgs, k) \cap N # {} }
    IN  IF more \subseteq N THEN N ELSE NeededFrom(pkgs, N \cup more)

Needed(di, pkgs) ==
    NeededFrom(pkgs, { k \in KeySet(pkgs) : is_direct_install(di, k) })

\* C1: collect_orphans() returns, each once, exactly the keys the cascading
\* sweep removes (the entries outside the largest self-supporting set), and so
\* none of the entries whose chain of dependents leads to a direct install.
C1_SweepExact ==
    ret.op = "collect_orphans" =>
        /\ NoDup(ret.orphans)
        /\ Range(ret.orphans) = KeySet(packages) \ Survivors(direct_installs, packages)
        /\ Range(ret.orphans) \cap Needed(direct_installs, packages) = {}

\* the chain a <- b <- c, a no longer direct, entered leaf first so that each
\* pass of the sweep removes one entry: all three are returned
C1_Witness ==
    /\ ret.op = "collect_orphans"
    /\ direct_installs = <<>>
    /\ DictKeys(packages) = <<kC, kB, kA>>
    /\ DictGet(packages, kA).dependents = <<>>
    /\ DictGet(packages, kB).dependents = <<kA>>
    /\ DictGet(packages, kC).dependents = <<kB>>
    /\ ret.orphans = <<kA, kB, kC>>

\* C5: collect_orphans() never returns an entry that has among its dependents
\* an entry of packages that is a direct install.
C5_SharedNotOrphaned ==
    ret.op = "collect_orphans" =>
        \A k \in Range(ret.orphans) :
            \A d \in Dependents(packages, k) :
                ~(HasKey(packages, d) /\ is_direct_install(direct_installs, d))

\* c is shared by a and b, only b is still a direct install: only a is returned
C5_Witness ==
    /\ ret.op = "collect_orphans"
    /\ KeySet(packages) = {kA, kB, kC}
    /\ Dependents(packages, kC) = {kA, kB}
    /\ Dependents(packages, kA) = {}
    /\ Dependents(packages, kB) = {}
    /\ Range(direct_installs) = {PackageRef("role", "b", V100)}
    /\ ret.orphans = <<kA>>

\* C6 as claimed: in every reachable state every key in a dependents list is
\* the key of an entry of packages.
C6_NoDangling ==
    \A i \in DOMAIN packages :
        \A d \in Range(packages[i].dependents) : HasKey(packages, d)

\* C6 as amended: no operation leaves a stale dependent behind. A dependents
\* key that names no entry after a step was already naming none before it, or
\* was written by this step (add_package with an unregistered dependent).
C6_NoStaleDependent ==
    [][\A i \in DOMAIN packages' :
          \A d \in Range(packages'[i].dependents) :
              ~HasKey(packages', d) =>
                  \/ ~HasKey(packages, packages'[i].key)
                  \/ d \notin Dependents(packages, packages'[i].key)
                  \/ ~HasKey(packages, d)]_vars

\* remove_package(k) was applied while another entry listed k as a dependent,
\* and that entry is still there
C6_Witness ==
    /\ ret.op = "remove_package"
    /\ ret.flag
    /\ packages # <<>>
    /\ ~HasKey(packages, ret.key)

\* C8 as claimed: is_orphan(k) of an entry k is true exactly when no key in
\* k's dependents is a key of packages and k is not a direct install.
C8_IsOrphanIff ==
    (ret.op = "is_orphan" /\ HasKey(packages, ret.key)) =>
        (ret.flag <=>
            /\ \A d \in Dependents(packages, ret.key) : ~HasKey(packages, d)
            /\ ~is_direct_install(direct_installs, ret.key))

(***************************************************************************)
(* Properties of the resolver                                              *)
(***************************************************************************)
\* what is installed, read off the directories
InstalledVersions(kind, slug) ==
    { e.name.version : e \in { x \in fs : /\ x.is_dir /\ x.kind = kind
                                          /\ x.name.slug = slug
                                          /\ x.name.version # NoVersion } }

HasDir(scope, kind, slug, version) ==
    \E e \in fs : /\ e.is_dir /\ e.scope = scope /\ e.kind = kind
                  /\ e.name = DirName(slug, version)

DirManifest(scope, kind, slug, version) ==
    IF ~HasDir(scope, kind, slug, version) THEN NoFile
    ELSE (CHOOSE e \in fs : /\ e.is_dir /\ e.scope = scope /\ e.kind = kind
                            /\ e.name = DirName(slug, version)).manifest

\* v is a lower version than w, whatever their spelling
Lower(v, w) ==
    \/ v[1] < w[1]
    \/ v[1] = w[1] /\ v[2] < w[2]
    \/ v[1] = w[1] /\ v[2] = w[2] /\ v[3] < w[3]

\* version v meets the constraint c (a DependencySpec, or NoSpec)
Meets(v, c) ==
    CASE c.operator \in {"none", "latest"} -> TRUE
      [] c.operator = "==" -> ~Lower(v, c.version) /\ ~Lower(c.version, v)
      [] c.operator = ">=" -> ~Lower(v, c.version)
      [] c.operator = "^" -> v[1] = c.version[1] /\ ~Lower(v, c.version)

\* the dependency strings a manifest declares for a package of the kind: a
\* skill's flat list names skills, a role's dict names skills and roles
DeclaredToks(manifest, kind) ==
    IF ~manifest.file THEN {}
    ELSE IF kind = "skill" /\ manifest.shape = "list"
    THEN { <<"skill", t>> : t \in Range(manifest.items) }
    ELSE IF kind = "role" /\ manifest.shape = "dict"
    THEN { <<"skill", t>> : t \in Range(manifest.items) }
         \cup { <<"role", t>> : t \in Range(manifest.roles) }
    ELSE {}

Parses(manifest, kind) == \A d \in DeclaredToks(manifest, kind) : d[2].op # "?"

\* the declarations as (kind, constraint) pairs; nothing can be followed from
\* a manifest that does not parse
Declared(manifest, kind) ==
    IF ~Parses(manifest, kind) THEN {}
    ELSE { [kind |-> d[1],
            spec |-> DependencySpec(d[2].slug,
                                    IF d[2].op = "" THEN "latest" ELSE d[2].op,
                                    d[2].version)] :
           d \in DeclaredToks(manifest, kind) }

PkgKey(p) == <<p.kind, p.slug>>

\* the packages a successful resolve returned
ResultPkgs == {result.root} \cup Range(result.dependencies)

DepKeys == { PkgKey(p) : p \in Range(result.dependencies) }

\* the keys that the returned version of a package declares
Targets(p) ==
    { <<d.kind, d.spec.slug>> :
        d \in Declared(DirManifest(p.source, p.kind, p.slug, p.version), p.kind) }

RECURSIVE ReachFrom(_)
ReachFrom(R) ==
    LET more == UNION { Targets(p) : p \in { q \in ResultPkgs : PkgKey(q) \in R } }
    IN  IF more \subseteq R THEN R ELSE ReachFrom(R \cup more)

Terminal == rpc \in {"done", "error"}

\* C2: a successful resolve returns as dependencies, each once, exactly the
\* packages reachable from the root through the declarations of the returned
\* versions, the root left out.
C2_ExactClosure ==
    rpc = "done" =>
        /\ \A i, j \in DOMAIN result.dependencies :
               i # j => PkgKey(result.dependencies[i]) # PkgKey(result.dependencies[j])
        /\ DepKeys = ReachFrom({PkgKey(result.root)}) \ {PkgKey(result.root)}

\* the diamond a -> b, a -> c, b -> d, c -> d resolves to exactly b, c, d
C2_Witness ==
    /\ rpc = "done"
    /\ PkgKey(result.root) = <<"role", "a">>
    /\ DirManifest("local", "role", "a", V100) = ManDict(<<Bare("b"), Bare("c")>>, <<>>)
    /\ DirManifest("local", "skill", "b", V100) = ManList(<<Bare("d")>>)
    /\ DirManifest("local", "skill", "c", V100) = ManList(<<Bare("d")>>)
    /\ Len(result.dependencies) = 3
    /\ DepKeys = {<<"skill", "b">>, <<"skill", "c">>, <<"skill", "d">>}

\* the keys declared by the versions selected so far for key k
SelTargets(k) ==
    UNION { { <<d.kind, d.spec.slug>> :
                d \in Declared(DirManifest(s.entry.scope, k[1], k[2], s.entry.version), k[1]) } :
            s \in { t \in Range(selected) : t.key = k } }

RECURSIVE SelReach(_)
SelReach(R) ==
    LET more == UNION { SelTargets(k) : k \in R }
    IN  IF more \subseteq R THEN R ELSE SelReach(R \cup more)

\* k lies on a cycle of the declarations of the selected versions
OnCycle(k) == k \in SelReach(SelTargets(k))

CycleFollowed == \E s \in Range(selected) : OnCycle(s.key)

\* every declaration of every selected version parses and has an installed
\* version that meets it
AllDeclaredCanBeMet ==
    \A s \in Range(selected) :
        LET m == DirManifest(s.entry.scope, s.key[1], s.key[2], s.entry.version)
        IN  /\ Parses(m, s.key[1])
            /\ \A d \in Declared(m, s.key[1]) :
                   \E v \in InstalledVersions(d.kind, d.spec.slug) : Meets(v, d.spec)

FirstConstraint(p) ==
    selected[CHOOSE i \in DOMAIN selected :
                /\ selected[i].key = PkgKey(p)
                /\ \A j \in 1..(i - 1) : selected[j].key # PkgKey(p)].constraint

\* C4: every package of a successful resolution has the highest installed
\* version, over both scopes, among those that meet the constraint under
\* which the package was first reached.
C4_HighestSatisfying ==
    rpc = "done" =>
        \A p \in ResultPkgs :
            LET ok == { v \in InstalledVersions(p.kind, p.slug) :
                          Meets(v, FirstConstraint(p)) }
            IN  /\ p.version \in ok
                /\ \A w \in ok : ~Lower(p.version, w)

\* d is installed at 1.0.0, 1.4.0 and 2.0.0 and a declares d^1.0.0: 1.4.0
C4_Witness ==
    /\ rpc = "done"
    /\ InstalledVersions("skill", "d") = {V100, V140, V200}
    /\ DirManifest("local", "role", "a", V100) = ManDict(<<Tok("d", "^", V100)>>, <<>>)
    /\ PkgKey(result.root) = <<"role", "a">>
    /\ result.root.version = V100
    /\ \E i \in DOMAIN result.dependencies :
           /\ PkgKey(result.dependencies[i]) = <<"skill", "d">>
           /\ result.dependencies[i].version = V140

\* C9: the index holds every installed version of a key once, as the local
\* directory whenever the local scope has that version; so a resolved package
\* is reported from the local scope exactly when its version is installed
\* there, and from the global scope otherwise.
C9_LocalFirst ==
    /\ rpc # "idle" =>
           \A k \in DOMAIN index :
               /\ \A i, j \in DOMAIN index[k] :
                      i # j => index[k][i].version # index[k][j].version
               /\ { index[k][i].version : i \in DOMAIN index[k] }
                      = InstalledVersions(k[1], k[2])
               /\ \A i \in DOMAIN index[k] :
                      LET e == index[k][i]
                          sc == IF HasDir("local", k[1], k[2], e.version)
                                THEN "local" ELSE "global"
                      IN  /\ e.scope = sc
                          /\ e.path = Path(sc, k[1], DirName(k[2], e.version))
    /\ rpc = "done" =>
           \A p \in ResultPkgs :
               LET sc == IF HasDir("local", p.kind, p.slug, p.version)
                         THEN "local" ELSE "global"
               IN  /\ p.source = sc
                   /\ p.path = Path(sc, p.kind, DirName(p.slug, p.version))

\* d is installed at 1.0.0 in both scopes and at 2.0.0 in the global scope
\* only: the dependency d resolves to 2.0.0 from the global scope
C9_Witness ==
    /\ rpc = "done"
    /\ HasDir("local", "skill", "d", V100)
    /\ HasDir("global", "skill", "d", V100)
    /\ HasDir("global", "skill", "d", V200)
    /\ ~HasDir("local", "skill", "d", V200)
    /\ \E i \in DOMAIN result.dependencies :
           /\ PkgKey(result.dependencies[i]) = <<"skill", "d">>
           /\ result.dependencies[i].version = V200
           /\ result.dependencies[i].source = "global"

\* C10: resolve fails with DependencyError when the requested package is not
\* installed, and when a version is asked for that is not installed (listing
\* the installed ones); when the version asked for is installed the root has
\* exactly that version, and every dependency is selected under a constraint
\* declared by a selected version, never under the root's pin.
C10_RootValidation ==
    Terminal =>
        LET installed == InstalledVersions(call.kind, call.slug)
        IN  /\ installed = {} =>
                   /\ result.status = "error"
                   /\ result.etype = "DependencyError"
                   /\ result.cause \in {"not_installed", "not_installed_any"}
            /\ (installed # {} /\ call.version # NoVersion
                    /\ call.version \notin installed) =>
                   /\ result.status = "error"
                   /\ result.etype = "DependencyError"
                   /\ result.cause = "version_not_installed"
                   /\ Range(result.listed) = installed
            /\ (installed # {} /\ call.version # NoVersion
                    /\ call.version \in installed) =>
                   /\ result.cause \notin {"not_installed", "not_installed_any",
                                            "version_not_installed"}
                   /\ selected[1].key = <<call.kind, call.slug>>
                   /\ selected[1].entry.version = call.version
                   /\ rpc = "done" => result.root.version = call.version
            /\ \A i \in 2..Len(selected) :
                   \E j \in 1..(i - 1) :
                       [kind |-> selected[i].key[1], spec |-> selected[i].constraint]
                           \in Declared(DirManifest(selected[j].entry.scope,
                                                    selected[j].key[1],
                                                    selected[j].key[2],
                                                    selected[j].entry.version),
                                        selected[j].key[1])

\* role a is installed at 1.0.0 and 2.0.0 and resolved at 1.0.0; its
\* dependency d, declared without a constraint, resolves to 2.0.0
C10_Witness ==
    /\ rpc = "done"
    /\ call.version = V100
    /\ InstalledVersions("role", "a") = {V100, V200}
    /\ result.root.version = V100
    /\ DirManifest("local", "role", "a", V100) = ManDict(<<Bare("d")>>, <<>>)
    /\ \E i \in DOMAIN result.dependencies :
           /\ PkgKey(result.dependencies[i]) = <<"skill", "d">>
           /\ result.dependencies[i].version = V200

(***************************************************************************)
(* Properties of the commands                                              *)
(***************************************************************************)
\* the packages that have a directory under the local root
OnDisk(files) ==
    { <<e.kind, e.name.slug, e.name.version>> :
        e \in { x \in files : x.is_dir /\ x.scope = Root /\ x.name.version # NoVersion } }

\* the packages of the lockfile that a step deletes: their entry, their
\* directory or both
Deleted ==
    { k \in Range(DictKeys(packages)) :
        \/ ~HasKey(packages', k)
        \/ k \in OnDisk(fs) \ OnDisk(fs') }

\* C7: every step of install, update and uninstall deletes a lock entry or a
\* package directory only if the sweep collect_orphans() returns the
\* package's key at that moment, the direct-install marks being those the
\* step leaves: no package is deleted while a surviving entry depends on it.
C7_DeletedOnlyWhenSwept ==
    [][fpc # "failed" =>
         \A k \in Deleted : InSeq(k, collect_orphans(direct_installs', packages))]_vars

\* the declarations of a selected version
SelDeclared(s) ==
    Declared(DirManifest(s.entry.scope, s.key[1], s.key[2], s.entry.version), s.key[1])

CanBeMet(d) == \E v \in InstalledVersions(d.kind, d.spec.slug) : Meets(v, d.spec)

SelectedKeys == { selected[i].key : i \in DOMAIN selected }

\* C11 as claimed: a resolve that returns a result has reached every
\* declaration of the returned versions, so each of them has an installed
\* version satisfying it; otherwise the call would have failed.
C11_EveryReachedMet ==
    rpc = "done" =>
        \A p \in ResultPkgs :
            \A d \in Declared(DirManifest(p.source, p.kind, p.slug, p.version), p.kind) :
                CanBeMet(d)

\* C11 as amended: a dependency whose key is reached for the first time (it is
\* neither resolved nor being resolved) under a constraint that no installed
\* version satisfies makes the whole call fail with DependencyError and no
\* result: a returned result holds every declared key, each selected under a
\* first constraint that its version satisfies; a declaration that cannot be
\* met and whose key was never selected leaves no result; and the error names
\* a key that a selected version declares under a constraint that cannot be
\* met.
C11_FirstReachUnmetFails ==
    /\ rpc = "done" =>
           /\ \A p \in ResultPkgs :
                  /\ p.version \in InstalledVersions(p.kind, p.slug)
                  /\ Meets(p.version, FirstConstraint(p))
                  /\ Targets(p) \subseteq { PkgKey(q) : q \in ResultPkgs }
    /\ Terminal =>
           ((\E i \in DOMAIN selected : \E d \in SelDeclared(selected[i]) :
                 /\ <<d.kind, d.spec.slug>> \notin SelectedKeys
                 /\ ~CanBeMet(d))
            => result.status = "error")
    /\ result.cause = "unsatisfied" =>
           /\ rpc = "error"
           /\ result.status = "error"
           /\ result.etype = "DependencyError"
           /\ result.root = NoPackage
           /\ result.dependencies = <<>>
           /\ result.pkg \notin SelectedKeys
           /\ \E i \in DOMAIN selected : \E d \in SelDeclared(selected[i]) :
                  /\ <<d.kind, d.spec.slug>> = result.pkg
                  /\ ~CanBeMet(d)

\* role a declares d==2.0.0 and only d 1.0.0 is installed: no result
C11_Witness ==
    /\ rpc = "error"
    /\ call.slug = "a"
    /\ InstalledVersions("skill", "d") = {V100}
    /\ DirManifest("local", "role", "a", V100) = ManDict(<<Tok("d", "==", V200)>>, <<>>)
    /\ result.etype = "DependencyError"
    /\ result.cause = "unsatisfied"
    /\ result.pkg = <<"skill", "d">>

\* C12: every failing call of resolve fails with DependencyError, whatever
\* the cause, a malformed dependency string in a selected manifest included.
C12_OnlyDependencyError ==
    (Terminal /\ result.status = "error") => result.etype = "DependencyError"

Without(deps, k) == SelectSeq(deps, LAMBDA d : d # k)

\* C14: after remove_package(k), k is not a key of packages and occurs in no
\* dependents list; the other entries are all still there, in the same order,
\* each with its kind, slug, version and its dependents other than k; and
\* direct_installs is as it was. The same holds when k was no entry before.
C14_RemovePackageFrame ==
    [][ret'.op = "remove_package" =>
          LET k == ret'.key
          IN  /\ ~HasKey(packages', k)
              /\ \A i \in DOMAIN packages' : ~InSeq(k, packages'[i].dependents)
              /\ DictKeys(packages') = Without(DictKeys(packages), k)
              /\ \A j \in KeySet(packages) \ {k} :
                     LET old == DictGet(packages, j)
                         new == DictGet(packages', j)
                     IN  /\ new.kind = old.kind
                         /\ new.slug = old.slug
                         /\ new.version = old.version
                         /\ new.dependents = Without(old.dependents, k)
              /\ direct_installs' = direct_installs]_vars

\* remove_package(k) was applied while an entry listed k and another key as
\* its dependents: the entry is still there and still lists the other key
C14_Witness ==
    /\ ret.op = "remove_package"
    /\ ret.flag
    /\ \E i \in DOMAIN packages : packages[i].dependents # <<>>
    /\ direct_installs # <<>>

\* s is an initial segment of t
IsPrefix(s, t) == Len(s) <= Len(t) /\ \A i \in DOMAIN s : s[i] = t[i]

\* C15: add_package is idempotent: whatever call add_package(ref, dependent)
\* made the step, the same call applied again changes nothing; the entries
\* that were there keep all their dependents, in order; and no dependents
\* list ever holds the same key twice.
C15_AddPackageIdempotent ==
    [][/\ \A i \in DOMAIN packages' : NoDup(packages'[i].dependents)
       /\ ret'.op = "add_package" =>
            /\ \A ref \in Refs, dependent \in Refs \cup {None} :
                   packages' = add_package(packages, ref, dependent) =>
                       add_package(packages', ref, dependent) = packages'
            /\ \A j \in KeySet(packages) :
                   /\ HasKey(packages', j)
                   /\ IsPrefix(DictGet(packages, j).dependents,
                               DictGet(packages', j).dependents)]_vars

\* add_package was called for an entry that already had a dependent, with a
\* second dependent: the entry lists both
C15_Witness ==
    /\ ret.op = "add_package"
    /\ \E i \in DOMAIN packages : Len(packages[i].dependents) = 2

\* the keys of the refs of a direct_installs list
DirectKeys(di) == { key(di[i]) : i \in DOMAIN di }

\* C16: add_direct_install and remove_direct_install are set insert and set
\* remove by key: direct_installs never holds two refs with the same key; the
\* call that made a step, applied again, changes nothing; a step of either
\* adds or removes one key of the set and leaves packages as it was; and
\* remove_direct_install of an absent ref changes nothing.
C16_DirectInstallsSet ==
    [][/\ \A i, j \in DOMAIN direct_installs' :
              i # j => key(direct_installs'[i]) # key(direct_installs'[j])
       /\ \A r \in Refs :
              key(r) \notin DirectKeys(direct_installs') =>
                  remove_direct_install(direct_installs', r) = direct_installs'
       /\ ret'.op = "add_direct_install" =>
              /\ \A r \in Refs :
                     direct_installs' = add_direct_install(direct_installs, r) =>
                         add_direct_install(direct_installs', r) = direct_installs'
              /\ \E r \in Refs :
                     DirectKeys(direct_installs') =
                         DirectKeys(direct_installs) \cup {key(r)}
              /\ packages' = packages
       /\ ret'.op = "remove_direct_install" =>
              /\ \A r \in Refs :
                     direct_installs' = remove_direct_install(direct_installs, r) =>
                         remove_direct_install(direct_installs', r) = direct_installs'
              /\ \E r \in Refs :
                     DirectKeys(direct_installs') =
                         DirectKeys(direct_installs) \ {key(r)}
              /\ packages' = packages]_vars

\* two refs were registered as direct installs while packages has entries
C16_Witness ==
    /\ ret.op = "add_direct_install"
    /\ Len(direct_installs) = 2
    /\ packages # <<>>

(***************************************************************************)
(* Properties of the file                                                  *)
(***************************************************************************)
\* C17: the lockfile round-trips losslessly. Whatever Lockfile the mutation
\* operations built, load() of the file save() wrote succeeds and gives the
\* same direct_installs (same refs, same order) and the same packages (same
\* keys in the same order, each with its kind, slug, version and dependents),
\* and saving what was loaded rewrites the same content; a load() made right
\* after a save() leaves the Lockfile in memory equal to the one saved.
C17_RoundTrip ==
    [][/\ ret'.op = "save" =>
            LET r == load(saved')
            IN  /\ r.ok
                /\ r.direct_installs = direct_installs'
                /\ r.packages = packages'
                /\ save(r.direct_installs, r.packages) = saved'
       /\ (ret.op = "save" /\ ret'.op = "load") =>
            /\ ret'.flag
            /\ direct_installs' = direct_installs
            /\ packages' = packages
            /\ saved' = saved]_vars

\* a Lockfile with two direct installs and an entry with two dependents was
\* saved and loaded again
C17_Witness ==
    /\ ret.op = "load"
    /\ ret.flag
    /\ saved = save(direct_installs, packages)
    /\ Len(direct_installs) = 2
    /\ \E i \in DOMAIN packages : Len(packages[i].dependents) = 2

\* C18: load of a missing file returns the empty Lockfile without error; load
\* of a file whose content no save() wrote fails with LockfileError and
\* yields no Lockfile.
C18_LoadMissingOrMalformed ==
    ret.op = "load" =>
        /\ saved = Missing =>
               ret.flag /\ direct_installs = <<>> /\ packages = <<>>
        /\ saved \in EditedFiles =>
               ~ret.flag /\ ret.etype = "LockfileError"

(***************************************************************************)
(* Properties of version_spec                                              *)
(***************************************************************************)
\* the three numbers a version string is written with
Numbers(v) == <<v[1], v[2], v[3]>>

\* lexicographic order of number triples
LexLess(x, y) ==
    \/ x[1] < y[1]
    \/ x[1] = y[1] /\ x[2] < y[2]
    \/ x[1] = y[1] /\ x[2] = y[2] /\ x[3] < y[3]

\* C19: satisfies_version(candidate, spec) is always true for latest; for ==
\* it is equality of the three components; for >= it is candidate >=
\* required; for ^ it is same major and candidate >= required, major 0
\* included. For ^1.2.0 it holds for 1.2.0, 1.2.1, 1.9.0 and fails for 2.0.0,
\* 1.1.9, 0.2.0.
C19_SatisfiesVersion ==
    vret.op = "satisfies_version" =>
        LET cand == Numbers(vcall.a)
            req == Numbers(vcall.b)
        IN  /\ vcall.operator = "latest" => vret.value
            /\ vcall.operator = "==" => (vret.value <=> cand = req)
            /\ vcall.operator = ">=" => (vret.value <=> ~LexLess(cand, req))
            /\ vcall.operator = "^" =>
                   (vret.value <=> (cand[1] = req[1] /\ ~LexLess(cand, req)))
            /\ (vcall.operator = "^" /\ vcall.b = V120) =>
                   /\ vcall.a \in {V120, V121, V190} => vret.value
                   /\ vcall.a \in {V200, V119, V020} => ~vret.value

\* satisfies_version("0.3.0", ^0.2.0) was called and returned true
C19_Witness ==
    /\ vret.op = "satisfies_version"
    /\ vcall.operator = "^"
    /\ vcall.a = V030
    /\ vcall.b = V020
    /\ vret.value

\* the sign of the lexicographic comparison of two number triples
LexSign(x, y) == IF LexLess(x, y) THEN -1 ELSE IF LexLess(y, x) THEN 1 ELSE 0

\* C20: compare_versions is a total order on parsed versions: it is 0 on a
\* version and itself, compare(a, b) = -compare(b, a), it is 0 only on equal
\* major, minor and patch, it is transitive, and it is the lexicographic
\* comparison of (major, minor, patch).
C20_CompareTotalOrder ==
    vret.op = "compare_versions" =>
        \A i, j, k \in 1..3 :
            /\ vret.cmp[i, i] = 0
            /\ vret.cmp[i, j] = 0 - vret.cmp[j, i]
            /\ vret.cmp[i, j] = 0 => Numbers(Arg(i)) = Numbers(Arg(j))
            /\ (vret.cmp[i, j] <= 0 /\ vret.cmp[j, k] <= 0) => vret.cmp[i, k] <= 0
            /\ vret.cmp[i, j] = LexSign(Numbers(Arg(i)), Numbers(Arg(j)))

\* 1.2.0, 1.2.1 and 1.9.0 were compared: each is below the next, and so is
\* the first below the last
C20_Witness ==
    /\ vret.op = "compare_versions"
    /\ vcall.a = V120
    /\ vcall.b = V121
    /\ vcall.c = V190
    /\ vret.cmp[1, 2] = -1
    /\ vret.cmp[2, 3] = -1
    /\ vret.cmp[1, 3] = -1

\* the key the innermost resolve_pkg call is about to reach
NextDepKey ==
    LET dep == Head(stack[Len(stack)].deps)
    IN  <<dep.kind, dep.spec.slug>>

ResolvedKeys == { PkgKey(resolved[i]) : i \in DOMAIN resolved }

\* C21: first resolution wins. Reaching a package that is already resolved
\* changes nothing and does not fail, whatever the constraint of the
\* dependent that reaches it; so no key is selected twice, and the version a
\* result reports for a package is the one selected the first (and only)
\* time it was reached.
C21_FirstResolutionWins ==
    [][/\ (rpc = "dfs" /\ stack # <<>> /\ stack[Len(stack)].deps # <<>>
           /\ NextDepKey \in ResolvedKeys) =>
              /\ rpc' = "dfs"
              /\ resolved' = resolved
              /\ selected' = selected
              /\ visiting' = visiting
              /\ result' = result
       /\ \A i, j \in DOMAIN selected' :
              i # j => selected'[i].key # selected'[j].key
       /\ rpc' = "done" =>
              \A p \in ResultPkgs' :
                  \E i \in DOMAIN selected' :
                      /\ selected'[i].key = PkgKey(p)
                      /\ selected'[i].entry.version = p.version
                      /\ selected'[i].entry.scope = p.source]_vars

\* d was resolved at 2.0.0 through b, then reached again through a's own
\* d^1.0.0, which 2.0.0 does not satisfy: the result reports d 2.0.0
C21_Witness ==
    /\ rpc = "done"
    /\ PkgKey(result.root) = <<"role", "a">>
    /\ \E p \in Range(result.dependencies) :
           /\ PkgKey(p) = <<"skill", "d">>
           /\ \E q \in ResultPkgs :
                  \E dd \in Declared(DirManifest(q.source, q.kind, q.slug, q.version), q.kind) :
                      /\ <<dd.kind, dd.spec.slug>> = PkgKey(p)
                      /\ ~Meets(p.version, dd.spec)

\* C22: at every step of a resolution visiting and resolved have no key in
\* common; a package enters resolved only when every key its selected
\* version declares is already in resolved; and once the root has returned
\* visiting is empty.
C22_VisitingResolvedDisjoint ==
    [][/\ visiting' \cap ResolvedKeys' = {}
       /\ \A i \in DOMAIN resolved' :
              PkgKey(resolved'[i]) \notin ResolvedKeys =>
                  LET p == resolved'[i]
                  IN  { <<d.kind, d.spec.slug>> :
                          d \in Declared(DirManifest(p.source, p.kind, p.slug, p.version),
                                         p.kind) } \subseteq ResolvedKeys
       /\ rpc' \in {"format", "done"} => visiting' = {}]_vars

\* the root is being resolved, one of its two dependencies is resolved and
\* the other is being resolved
C22_Witness ==
    /\ rpc = "dfs"
    /\ Cardinality(visiting) = 2
    /\ Len(resolved) = 1
    /\ Len(stack) = 2

\* C23: one invocation of install or uninstall writes the lockfile file at
\* most once, as its last step, after every change of the Lockfile in memory
\* and every directory deletion: the step that writes ends the command with
\* success and writes the Lockfile as it then is in memory; while a command
\* is running, and when it aborts (failed download, failed directory
\* deletion, error exit), the file is the snapshot that was loaded.
C23_SavedOnceAtEnd ==
    [][/\ saved' # saved =>
              /\ fpc' = "idle"
              /\ fres' = "ok"
              /\ cmd' = NoCmd
              /\ fs' = fs
              /\ saved' = save(direct_installs', packages')
       /\ fpc' # "idle" => saved' = saved
       /\ (fpc' = "idle" /\ fres' # "ok") => saved' = saved
       /\ fpc = "failed" =>
              /\ saved' = saved
              /\ load(saved').direct_installs = direct_installs'
              /\ load(saved').packages = packages']_vars

\* an install was aborted by a failed download after a lockfile had been
\* saved: the file still holds that snapshot, and the directory the download
\* left empty is on disk
C23_Witness ==
    /\ fpc = "idle"
    /\ fres = "error"
    /\ saved # Missing
    /\ \E e \in fs : e.is_dir /\ e.scope = Root /\ e.manifest = NoFile
    /\ saved = save(direct_installs, packages)

\* the directory of the entry of key k is on disk in the command's root
EntryOnDisk(files, pkgs, k) ==
    LET pkg == DictGet(pkgs, k)
    IN  \E e \in files : /\ e.is_dir /\ e.scope = Root /\ e.kind = pkg.kind
                         /\ e.name = DirName(pkg.slug, pkg.version)

\* C24: in the orphan cleanup the directory of a returned key is gone when
\* remove_package has been applied for it; and when deleting a directory
\* fails, the failed key and the keys still to be cleaned whose directories
\* exist are all listed in the persisted lockfile, which is not written.
C24_DeleteBeforeRemove ==
    [][fpc = "cleanup" =>
          /\ \A k \in KeySet(packages) \ KeySet(packages') :
                 ~EntryOnDisk(fs', packages, k)
          /\ fpc' = "failed" =>
                 /\ saved' = saved
                 /\ EntryOnDisk(fs', packages, Head(cmd.orphans))
                 /\ \A k \in Range(cmd.orphans) :
                        (HasKey(packages, k) /\ EntryOnDisk(fs', packages, k)) =>
                            HasKey(load(saved').packages, k)]_vars

\* the cleanup stopped at a directory that could not be deleted: the entry is
\* still in memory and in the saved lockfile, the directory is on disk
C24_Witness ==
    /\ fpc = "failed"
    /\ cmd.orphans # <<>>
    /\ HasKey(packages, Head(cmd.orphans))
    /\ EntryOnDisk(fs, packages, Head(cmd.orphans))
    /\ HasKey(load(saved).packages, Head(cmd.orphans))

\* C25: superseding update. When the update command, or install --update,
\* ends for a direct install (kind, slug, v) while the hub's latest version
\* v' is higher than v, the saved lockfile records v' in packages and in the
\* direct installs and v is no longer a direct install; when the latest
\* version is not higher, the direct installs are unchanged.
C25_UpdateSupersedes ==
    [][/\ (fpc = "update" /\ fpc' = "idle") =>
              LET old == cmd.root_ref
                  new == PackageRef(old.kind, old.slug, registry[<<old.kind, old.slug>>])
              IN  IF Lower(old.version, new.version)
                  THEN /\ HasKey(load(saved').packages, key(new))
                       /\ is_direct_install(load(saved').direct_installs, key(new))
                       /\ ~is_direct_install(load(saved').direct_installs, key(old))
                  ELSE load(saved').direct_installs = load(saved).direct_installs
       /\ (fpc = "cleanup" /\ cmd.op = "install" /\ cmd.update /\ fpc' = "idle") =>
              \A i \in DOMAIN load(saved).direct_installs :
                  LET old == load(saved).direct_installs[i]
                      new == cmd.root_ref
                  IN  (old.kind = new.kind /\ old.slug = new.slug
                       /\ Lower(old.version, new.version)) =>
                          /\ HasKey(load(saved').packages, key(new))
                          /\ is_direct_install(load(saved').direct_installs, key(new))
                          /\ ~is_direct_install(load(saved').direct_installs, key(old))]_vars


\* C26: no garbage survives the sweep. In every state the mutation operations
\* reach, every entry that collect_orphans() does not return is a direct
\* install or is required, directly or through a chain of dependents edges,
\* by an entry that is a direct install.
C26_NoGarbageSurvives ==
    ret.op = "collect_orphans" =>
        (KeySet(packages) \ Range(ret.orphans)) \subseteq Needed(direct_installs, packages)


\* C27: the sweep reaches a fixpoint in one application. After remove_package
\* has been applied to every key collect_orphans() returned, a second
\* collect_orphans() returns the empty list and is_orphan is false for every
\* remaining entry.
C27_SweepFixpoint ==
    ret.op = "remove_orphans" =>
        /\ collect_orphans(direct_installs, packages) = <<>>
        /\ \A k \in KeySet(packages) : ~is_orphan(direct_installs, packages, k)

\* two orphans were removed in one application and an entry remains
C27_Witness ==
    /\ ret.op = "remove_orphans"
    /\ Len(ret.orphans) = 2
    /\ Len(packages) = 1


\* every key in direct_installs and in every dependents list is a key of packages
ReferentialIntegrity(di, pkgs) ==
    /\ \A i \in DOMAIN di : HasKey(pkgs, key(di[i]))
    /\ \A i \in DOMAIN pkgs :
           \A d \in Range(pkgs[i].dependents) : HasKey(pkgs, d)

\* C28: referential integrity is preserved by the install and uninstall
\* flows. If every key in direct_installs and in every dependents list of the
\* loaded lockfile is a key of packages, the same holds for the lockfile the
\* flow saves, whatever the outcome of the flow.
C28_FlowsKeepIntegrity ==
    [][(saved' # saved
        /\ ReferentialIntegrity(load(saved).direct_installs, load(saved).packages))
       => ReferentialIntegrity(load(saved').direct_installs, load(saved').packages)]_vars


\* an install has saved its lockfile: it holds one direct install, at version
\* 2.0.0, and a dependency entry that lists it as its only dependent
C28_Witness ==
    /\ fpc = "idle"
    /\ fres = "ok"
    /\ saved # Missing
    /\ load(saved).direct_installs = direct_installs
    /\ load(saved).packages = packages
    /\ Len(direct_installs) = 1
    /\ direct_installs[1].version = V200
    /\ \E i \in DOMAIN packages : packages[i].dependents = <<key(direct_installs[1])>>


\* C29: after the project-file install completes successfully, the version of
\* the declared slug installed in the local scope satisfies the declared
\* constraint, whether the slug was absent before, present with a satisfying
\* version, or present with a version that did not satisfy the constraint.
C29_ProjectInstallSatisfies ==
    [][(fpc # "idle" /\ fpc' = "idle" /\ fres' = "ok" /\ cmd.declared # NoDeclared) =>
          LET d == cmd.declared
              spec == parse_constraint(d.constraint).spec
              installed == slug_installed_in_scope(fs', Root, d.kind, d.slug)
          IN  /\ installed # NoVersion
              /\ satisfies_version(installed,
                                   DependencySpec(d.slug, spec.operator, spec.version))]_vars


\* the (kind, slug) keys selected so far, in the order resolve_pkg selected
\* them and read their manifests
SelectionOrder == [i \in DOMAIN selected |-> selected[i].key]

\* the call of resolve has ended: it returned its result or raised an error
Terminated ==
    \/ rpc = "done" /\ result.status = "ok"
    \/ rpc = "error" /\ result.status = "error"

\* C30: resolve terminates on every set of installed packages, whatever the
\* dependency declarations, cyclic ones included, with a result or with an
\* error; during one call each (kind, slug) is selected, and its manifest
\* read, at most once.
C30_ResolveTerminates ==
    /\ [](rpc # "idle" => <>Terminated)
    /\ [](NoDup(SelectionOrder) /\ Len(stack) <= Len(selected))

\* a call over a cycle of declarations has ended, with the circular
\* dependency error, after two packages were selected
C30_Witness ==
    /\ Terminated
    /\ result.cause = "circular"
    /\ Len(selected) = 2

====
